---- MODULE Spec2Model ----
(***************************************************************************)
(* A model of the hydraulic core of EPA SWMM 5.1: the non-dynamic flow     *)
(* routing driver (flowrout.c), the hot start file reader (hotstart.c)     *)
(* and the runoff driver (runoff.c, subcatch.c).                           *)
(*                                                                         *)
(* Arithmetic.  The program computes in IEEE doubles.  The model computes  *)
(* in fixed point: every depth (ft), area (ft2), volume (ft3) and flow     *)
(* (cfs) is an integer count of units of 0.0001, so that FUDGE = 0.0001 is *)
(* 1 unit and STOPTOL = 0.005 is 50 units.  Time steps are whole seconds.  *)
(* A product with 0.5 or a quotient by the time step is the integer        *)
(* quotient (\div, rounding down).  Array indexes are 1-based.             *)
(***************************************************************************)
EXTENDS Integers, Sequences, FiniteSets, TLC

VARIABLES
    ErrorCode,      \* sp->ErrorCode, the process-wide error code
    AllowPonding,   \* sp->AllowPonding
    Node,           \* sp->Node[], one record per node
    Link,           \* sp->Link[] with the conduit data sp->Conduit[] merged in
    sortedLinks,    \* the links[] array handed to flowrout_execute
    rt,             \* flowrout_execute's position and locals
    Nobjects,       \* sp->Nobjects[], the number of objects of each kind
    FlowUnits,      \* sp->FlowUnits
    Subcatch,       \* sp->Subcatch[], one record per subcatchment
    Fhotstart1,     \* sp->Fhotstart1, the hot start file that is read
    Fhotstart2,     \* sp->Fhotstart2, the hot start file that is written
    Frunoff,        \* sp->Frunoff, the runoff interface file
    FileVersion,    \* sp->FileVersion, the version of the hot start file read
    RunoffShared,   \* sp->RunoffShared, the runoff module's own state
    hot,            \* position and results of the hotstart_ and runoff_ calls
    OldRunoffTime,  \* sp->OldRunoffTime, the previous runoff time (msec)
    NewRunoffTime,  \* sp->NewRunoffTime, the current runoff time (msec)
    Gage,           \* sp->Gage[], one record per rain gage
    Outfall,        \* sp->Outfall[], one record per outfall node
    sp,             \* the analysis options and the climate state of sp
    tick,           \* what the last call of runoff_execute did
    Fout,           \* sp->Fout, the binary output file
    otpt,           \* sp->OutputShared, sp->OutputExport and sp->Nperiods
    RptFlag,        \* the rptFlag of each subcatchment, node and link
    layout          \* what flowrout_init found and reported

routeVars == <<AllowPonding, sortedLinks, rt, layout>>
fileVars == <<Fhotstart1, Fhotstart2, Frunoff, FileVersion, RunoffShared, hot>>
projVars == <<Nobjects, FlowUnits, Subcatch>>
runoffVars == <<OldRunoffTime, NewRunoffTime, Gage, Outfall, sp, tick>>
outVars == <<Fout, otpt, RptFlag>>
vars == <<ErrorCode, Node, Link, routeVars, projVars, fileVars, runoffVars, outVars>>

-----------------------------------------------------------------------------
(* Constants of the program.                                               *)

FUDGE == 1
UNIT == 10000 * FUDGE
OMEGA == 55
MAXITER == 10
STOPTOL == 50
ERR_NONE == 0
\* the error codes (error.h); each is shown by the number of its message
ERR_MEMORY == 101
ERR_ODE_SOLVER == 105
ERR_TIMESTEP == 107
ERR_SLOPE == 115
ERR_MULTI_OUTLET == 133
ERR_DUMMY_LINK == 134
ERR_DIVIDER == 135
ERR_REGULATOR == 139
ERR_OUTFALL == 141
ERR_NO_OUTLETS == 145
ERR_RUNOFF_FILE_OPEN == 323
ERR_RUNOFF_FILE_FORMAT == 325
ERR_RUNOFF_FILE_END == 327
ERR_RUNOFF_FILE_READ == 329
ERR_HOTSTART_FILE_OPEN == 331
ERR_HOTSTART_FILE_FORMAT == 333
ERR_HOTSTART_FILE_READ == 335
\* MISSING (consts.h) is -1.e10, beyond the fixed point range
MISSING == 0 - 2^30

\* A double that is not finite: NAN is not a number and INF is infinite
\* (0 - INF the negative one); every other value is a number of units
NAN == 2^30
INF == 2^30 - 1

\* sum, difference, product and quotient of doubles, and their comparisons
XAdd(a, b) ==
    IF a = NAN \/ b = NAN THEN NAN
    ELSE IF a \in {INF, 0 - INF} THEN (IF b = 0 - a THEN NAN ELSE a)
    ELSE IF b \in {INF, 0 - INF} THEN b
    ELSE a + b

XSub(a, b) == XAdd(a, IF b = NAN THEN NAN ELSE 0 - b)

XMul(a, b) ==
    IF a = NAN \/ b = NAN THEN NAN
    ELSE IF a \in {INF, 0 - INF} \/ b \in {INF, 0 - INF}
         THEN IF a = 0 \/ b = 0 THEN NAN
              ELSE IF (a > 0) = (b > 0) THEN INF ELSE 0 - INF
    ELSE a * b

XDiv(a, b) ==
    IF a = NAN \/ b = NAN THEN NAN
    ELSE IF a \in {INF, 0 - INF}
         THEN IF b \in {INF, 0 - INF} THEN NAN
              ELSE IF b < 0 THEN 0 - a ELSE a
    ELSE IF b \in {INF, 0 - INF} THEN 0
    ELSE IF b = 0
         THEN IF a = 0 THEN NAN ELSE IF a > 0 THEN INF ELSE 0 - INF
    ELSE IF b < 0 THEN (0 - a) \div (0 - b)
    ELSE a \div b

XLt(a, b) == a # NAN /\ b # NAN /\ a < b
XLe(a, b) == a # NAN /\ b # NAN /\ a <= b

\* the macros MAX and MIN (macros.h)
MAX(a, b) == IF XLe(b, a) THEN a ELSE b
MIN(a, b) == IF XLe(a, b) THEN a ELSE b
ABS(a) == IF a < 0 THEN 0 - a ELSE a
\* output.c: the numbers of result variables (enums.h), the codes of the
\* input data (output.c 30-31), the stamp and version of the file and the
\* largest file (consts.h), the date that is none (datetime.h)
MAX_SUBCATCH_RESULTS == 9
MAX_NODE_RESULTS == 7
MAX_LINK_RESULTS == 6
MAX_SYS_RESULTS == 15
INPUT_TYPE_CODE == 0
INPUT_AREA == 1
INPUT_INVERT == 2
INPUT_MAX_DEPTH == 3
INPUT_OFFSET == 4
INPUT_LENGTH == 5
MAGICNUMBER == 516114522
VERSION == 51000
MAXFILESIZE == 2147483647
NO_DATE == 0 - 693594
ERR_OUT_FILE == 305
ERR_FILE_SIZE == 303

Zeros(n) == [j \in 1..n |-> 0]

NodeTypes == {"JUNCTION", "OUTFALL", "STORAGE", "DIVIDER"}
LinkTypes == {"CONDUIT", "PUMP", "ORIFICE", "WEIR", "OUTLET"}
Regulators == {"ORIFICE", "WEIR", "OUTLET"}

-----------------------------------------------------------------------------
(* Bounds of the model.                                                    *)

MaxInflow == 2          \* lateral inflow levels 0..MaxInflow, 5 cfs apiece
MaxOldVol == 1          \* old volume levels 0..MaxOldVol, 50 ft3 apiece
MaxNsteps == 5          \* runoff_execute is called while Nsteps < MaxNsteps

\* the calls of output_saveResults in a run and the reads of the report
MaxSaves == 3
MaxReads == 2

Nodes == 1..3
Links == 1..3
InflowLevels == {5 * UNIT * k : k \in 0..MaxInflow}
OldVolLevels == {50 * UNIT * k : k \in 0..MaxOldVol}
TimeSteps == {60}
\* the heights of the inlet of link 3 above the invert of its upstream
\* node: at the invert and above the full depth of the node
InletOffsets == {0, 25 * UNIT}
\* the values of a float that was never set
JunkFloats == {7 * UNIT, NAN}

-----------------------------------------------------------------------------
(* Collaborators of flowrout.c: node.c, link.c and xsect.c.                *)

\* node_getDepth: a storage unit is a prismatic tank of surface area
\* `area`; any other node scales its full depth by the filled fraction.
node_getDepth(n, v) ==
    IF n.type = "STORAGE" THEN v \div n.area
    ELSE IF n.fullVolume > 0 THEN (n.fullDepth * (v \div UNIT)) \div (n.fullVolume \div UNIT)
    ELSE 0

\* node_getMaxOutflow: outflow cannot exceed what the node holds and receives
node_getMaxOutflow(n, q, dt) ==
    LET qMax == n.inflow + n.oldVolume \div dt
        q1 == IF n.fullVolume > 0 /\ q > qMax THEN qMax ELSE q
    IN  MAX(0, q1)

\* link_getInflow: a conduit or pump takes its upstream node's inflow; a
\* regulator fed by a storage unit follows a linear rating of the node depth
link_getInflow(N, L, j) ==
    IF L[j].setting = 0 THEN 0
    ELSE IF L[j].type \in Regulators THEN L[j].rating * N[L[j].node1].newDepth
    ELSE N[L[j].node1].inflow

\* link_getLossRate: evaporation and seepage loss of a conduit (cfs)
link_getLossRate(L, j, q, tStep) == L[j].lossRate

\* xsect_getAofS and xsect_getYofA: monotone, onto [0, aFull] and [0, yFull]
xsect_getAofS(l, s) ==
    IF s <= 0 THEN 0
    ELSE IF s >= l.sFull THEN l.aFull
    ELSE (s * (l.aFull \div UNIT)) \div (l.sFull \div UNIT)

xsect_getYofA(l, a) ==
    IF a <= 0 THEN 0
    ELSE IF a >= l.aFull THEN l.yFull
    ELSE (a * (l.yFull \div UNIT)) \div (l.aFull \div UNIT)

link_getLength(l) == l.length

-----------------------------------------------------------------------------
(* flowrout.c                                                              *)

\* getLinkInflow (flowrout.c 510-526)
getLinkInflow(N, L, j, dt) ==
    LET n1 == L[j].node1
        q == IF L[j].type = "CONDUIT" \/ L[j].type = "PUMP" \/ N[n1].type = "STORAGE"
             THEN link_getInflow(N, L, j)
             ELSE 0
    IN  node_getMaxOutflow(N[n1], q, dt)

\* getStorageOutflow (flowrout.c 605-625): sums from position j of the
\* link array up to the first link that does not leave node i
RECURSIVE getStorageOutflowFrom(_, _, _, _, _, _)
getStorageOutflowFrom(N, L, i, k, links, dt) ==
    IF k > Len(links) THEN 0
    ELSE IF L[links[k]].node1 # i THEN 0
    ELSE getLinkInflow(N, L, links[k], dt)
         + getStorageOutflowFrom(N, L, i, k + 1, links, dt)

getStorageOutflow(N, L, i, j, links, dt) ==
    getStorageOutflowFrom(N, L, i, j, links, dt)

\* the pass without the limit of lines 579-580 on the volume
StorageIterate_NoLimit(N, L, i, j, links, dt, vFixed, d1) ==
    LET n == N[i]
        v2a == vFixed - (getStorageOutflow(N, L, i, j, links, dt) * dt) \div 2
        v2 == MAX(0, v2a)
        ovr == (v2 - MAX(n.oldVolume, n.fullVolume)) \div dt
        overflow == IF v2 > n.fullVolume
                    THEN (IF ovr < FUDGE THEN 0 ELSE ovr)
                    ELSE 0
        d2 == ((100 - OMEGA) * d1 + OMEGA * node_getDepth(n, v2)) \div 100
    IN  [N EXCEPT ![i].overflow = overflow,
                  ![i].newVolume = v2,
                  ![i].newDepth = d2]

\* One pass of the loop body of updateStorageState (flowrout.c 567-596)
StorageIterate(N, L, i, j, links, dt, vFixed, d1) ==
    LET n == N[i]
        v2a == vFixed - (getStorageOutflow(N, L, i, j, links, dt) * dt) \div 2
        v2b == MAX(0, v2a)
        ovr == (v2b - MAX(n.oldVolume, n.fullVolume)) \div dt
        overflow == IF v2b > n.fullVolume
                    THEN (IF ovr < FUDGE THEN 0 ELSE ovr)
                    ELSE 0
        v2 == IF v2b > n.fullVolume /\ (~AllowPonding \/ n.pondedArea = 0)
              THEN n.fullVolume ELSE v2b
        d2 == ((100 - OMEGA) * d1 + OMEGA * node_getDepth(n, v2)) \div 100
    IN  [N EXCEPT ![i].overflow = overflow,
                  ![i].newVolume = v2,
                  ![i].newDepth = d2]

\* The while loop of updateStorageState (flowrout.c 563-600); iter and
\* stopped are kept in the node record as they stand when the loop exits,
\* and at lists the positions j of the link array of the updates of the step
RECURSIVE StorageLoop(_, _, _, _, _, _, _, _, _, _)
StorageLoop(N, L, i, j, links, dt, vFixed, d1, iter, stopped) ==
    IF iter < MAXITER /\ ~stopped
    THEN LET N2 == StorageIterate(N, L, i, j, links, dt, vFixed, d1)
             d2 == N2[i].newDepth
         IN  StorageLoop(N2, L, i, j, links, dt, vFixed, d2, iter + 1,
                         ABS(d2 - d1) <= STOPTOL)
    ELSE [N EXCEPT ![i].updated = TRUE, ![i].iter = iter, ![i].stopped = stopped,
                   ![i].at = Append(@, j)]

\* updateStorageState with line 600 left out: the node is not marked
updateStorageState_NoMark(N, L, i, j, links, dt) ==
    IF N[i].type # "STORAGE" THEN N
    ELSE IF N[i].updated THEN N
    ELSE LET vFixed == N[i].oldVolume
                       + ((N[i].oldNetInflow + N[i].inflow - N[i].outflow) * dt) \div 2
             R == StorageLoop(N, L, i, j, links, dt, vFixed, N[i].newDepth, 1, FALSE)
         IN  [R EXCEPT ![i].updated = FALSE]

\* updateStorageState without the test of the updated flag at line 550
updateStorageState_NoFlagTest(N, L, i, j, links, dt) ==
    IF N[i].type # "STORAGE" THEN N
    ELSE LET vFixed == N[i].oldVolume
                       + ((N[i].oldNetInflow + N[i].inflow - N[i].outflow) * dt) \div 2
         IN  StorageLoop(N, L, i, j, links, dt, vFixed, N[i].newDepth, 1, FALSE)

\* updateStorageState (flowrout.c 530-601)
updateStorageState(N, L, i, j, links, dt) ==
    IF N[i].type # "STORAGE" THEN N
    ELSE IF N[i].updated THEN N
    ELSE LET vFixed == N[i].oldVolume
                       + ((N[i].oldNetInflow + N[i].inflow - N[i].outflow) * dt) \div 2
         IN  StorageLoop(N, L, i, j, links, dt, vFixed, N[i].newDepth, 1, FALSE)

\* setNewNodeState with line 664 left out: a negative overflow is kept
setNewNodeState_NoFudge(N, L, j, dt) ==
    IF N[j].type = "STORAGE"
    THEN (IF N[j].updated = FALSE
          THEN updateStorageState(N, L, j, Cardinality(DOMAIN L) + 1, <<>>, dt)
          ELSE N)
    ELSE LET n == N[j]
             newNetInflow == n.inflow - n.outflow - n.losses
             v1 == n.oldVolume + ((n.oldNetInflow + newNetInflow) * dt) \div 2
             v2 == IF v1 < FUDGE THEN 0 ELSE v1
             canPond == AllowPonding /\ n.pondedArea > 0
             ovr == (v2 - MAX(n.oldVolume, n.fullVolume)) \div dt
             overflow == IF v2 > n.fullVolume THEN ovr ELSE 0
             v3 == IF v2 > n.fullVolume /\ ~canPond THEN n.fullVolume ELSE v2
         IN  [N EXCEPT ![j].newVolume = v3,
                       ![j].overflow = overflow,
                       ![j].newDepth = node_getDepth(n, v3)]

\* setNewNodeState (flowrout.c 629-672)
setNewNodeState(N, L, j, dt) ==
    IF N[j].type = "STORAGE"
    THEN (IF N[j].updated = FALSE
          THEN updateStorageState(N, L, j, Cardinality(DOMAIN L) + 1, <<>>, dt)
          ELSE N)
    ELSE LET n == N[j]
             newNetInflow == n.inflow - n.outflow - n.losses
             v1 == n.oldVolume + ((n.oldNetInflow + newNetInflow) * dt) \div 2
             v2 == IF v1 < FUDGE THEN 0 ELSE v1
             canPond == AllowPonding /\ n.pondedArea > 0
             ovr == (v2 - MAX(n.oldVolume, n.fullVolume)) \div dt
             overflow == IF v2 > n.fullVolume
                         THEN (IF ovr < FUDGE THEN 0 ELSE ovr)
                         ELSE 0
             v3 == IF v2 > n.fullVolume /\ ~canPond THEN n.fullVolume ELSE v2
         IN  [N EXCEPT ![j].newVolume = v3,
                       ![j].overflow = overflow,
                       ![j].newDepth = node_getDepth(n, v3)]

\* updateNodeDepth without the limit of lines 741-744 to the full depth
updateNodeDepth_NoLimit(N, i, y) ==
    IF N[i].type = "STORAGE" THEN N
    ELSE LET y1 == IF N[i].type # "OUTFALL" /\ N[i].overflow > 0
                   THEN N[i].fullDepth ELSE y
         IN  IF N[i].newDepth < y1
             THEN [N EXCEPT ![i].newDepth = y1]
             ELSE N

\* updateNodeDepth (flowrout.c 720-747)
updateNodeDepth(N, i, y) ==
    IF N[i].type = "STORAGE" THEN N
    ELSE LET y1 == IF N[i].type # "OUTFALL" /\ N[i].overflow > 0
                   THEN N[i].fullDepth ELSE y
         IN  IF N[i].newDepth < y1
             THEN (IF N[i].fullDepth > 0 /\ y1 > N[i].fullDepth
                   THEN [N EXCEPT ![i].newDepth = N[i].fullDepth]
                   ELSE [N EXCEPT ![i].newDepth = y1])
             ELSE N

\* setNewLinkState with the sum of the end depths for their mean (line 698)
setNewLinkState_Link_Sum(l) ==
    IF l.type = "CONDUIT"
    THEN LET a == (l.a1 + l.a2) \div 2
             y1 == xsect_getYofA(l, l.a1)
             y2 == xsect_getYofA(l, l.a2)
             full == l.a1 >= l.aFull
         IN  [l EXCEPT !.newVolume = a * link_getLength(l) * l.barrels,
                       !.newDepth = y1 + y2,
                       !.capacityLimited = full,
                       !.fullState = IF full THEN "ALL_FULL" ELSE "NOT_FULL"]
    ELSE [l EXCEPT !.newDepth = 0, !.newVolume = 0]

\* setNewLinkState (flowrout.c 676-716): the link's part and the nodes' part
setNewLinkState_Link(l) ==
    IF l.type = "CONDUIT"
    THEN LET a == (l.a1 + l.a2) \div 2
             y1 == xsect_getYofA(l, l.a1)
             y2 == xsect_getYofA(l, l.a2)
             full == l.a1 >= l.aFull
         IN  [l EXCEPT !.newVolume = a * link_getLength(l) * l.barrels,
                       !.newDepth = (y1 + y2) \div 2,
                       !.capacityLimited = full,
                       !.fullState = IF full THEN "ALL_FULL" ELSE "NOT_FULL"]
    ELSE [l EXCEPT !.newDepth = 0, !.newVolume = 0]

setNewLinkState_Nodes(N, l) ==
    IF l.type = "CONDUIT"
    THEN LET y1 == xsect_getYofA(l, l.a1)
             y2 == xsect_getYofA(l, l.a2)
             N1 == updateNodeDepth(N, l.node1, y1 + l.offset1)
         IN  updateNodeDepth(N1, l.node2, y2 + l.offset2)
    ELSE N

\* steadyflow_execute without the capacity test of lines 779-784
steadyflow_execute_NoCap(L, j, qin, tStep) ==
    LET l == L[j]
        q0 == qin \div l.barrels
        q1 == q0 - link_getLossRate(L, j, q0, tStep)
        q2 == IF q1 < 0 THEN 0 ELSE q1
        q == IF l.xsect = "DUMMY" THEN q0 ELSE q2
        a1 == IF l.xsect = "DUMMY" THEN 0 ELSE xsect_getAofS(l, q \div l.beta)
    IN  IF l.type = "CONDUIT"
        THEN [link |-> [l EXCEPT !.a1 = a1, !.a2 = a1,
                                 !.q1Old = l.q1, !.q2Old = l.q2,
                                 !.q1 = q, !.q2 = q],
              qin |-> qin, qout |-> q * l.barrels, steps |-> 1]
        ELSE [link |-> l, qin |-> qin, qout |-> qin, steps |-> 1]

\* steadyflow_execute (flowrout.c 751-805): the link as left by the call,
\* the adjusted inflow and the outflow
steadyflow_execute(L, j, qin, tStep) ==
    LET l == L[j]
        q0 == qin \div l.barrels
        q1 == q0 - link_getLossRate(L, j, q0, tStep)
        q2 == IF q1 < 0 THEN 0 ELSE q1
        over == q2 > l.qFull
        q == IF l.xsect = "DUMMY" THEN q0
             ELSE IF over THEN l.qFull ELSE q2
        a1 == IF l.xsect = "DUMMY" THEN 0
              ELSE IF over THEN l.aFull
              ELSE xsect_getAofS(l, q \div l.beta)
    IN  IF l.type = "CONDUIT"
        THEN [link |-> [l EXCEPT !.a1 = a1, !.a2 = a1,
                                 !.q1Old = l.q1, !.q2Old = l.q2,
                                 !.q1 = q, !.q2 = q],
              qin |-> IF l.xsect # "DUMMY" /\ over THEN q * l.barrels ELSE qin,
              qout |-> q * l.barrels,
              steps |-> 1]
        ELSE [link |-> l, qin |-> qin, qout |-> qin, steps |-> 1]

\* kinwave_execute (kinwave.c): one conduit over one step.  Its outcome
\* depends on the conduit's state along its length, which this model does
\* not carry: `k` selects between a conduit running full and one running
\* partly full with an attenuated outflow.  Other links pass the flow.
KwOutcomes == {"full", "part"}

kinwave_execute(L, j, qin, tStep, k) ==
    LET l == L[j]
        qcap == l.qFull * l.barrels
        qi == MIN(qin, qcap)
        q == qi \div l.barrels
        a1 == xsect_getAofS(l, q \div l.beta)
    IN  IF l.type # "CONDUIT" \/ l.xsect = "DUMMY"
        THEN steadyflow_execute(L, j, qin, tStep)
        ELSE IF k = "full"
        THEN [link |-> [l EXCEPT !.a1 = l.aFull, !.a2 = l.aFull,
                                 !.q1Old = l.q1, !.q2Old = l.q2,
                                 !.q1 = q, !.q2 = q],
              qin |-> qi, qout |-> qi, steps |-> 1]
        ELSE [link |-> [l EXCEPT !.a1 = a1, !.a2 = a1 \div 2,
                                 !.q1Old = l.q1, !.q2Old = l.q2,
                                 !.q1 = q, !.q2 = q \div 2],
              qin |-> qi, qout |-> (q \div 2) * l.barrels, steps |-> 2]

\* dynwave_execute (dynwave.c): the network-wide solver, opaque here
dynwave_execute(tStep) == 1

RECURSIVE SetAllNodes(_, _, _, _)
SetAllNodes(N, L, j, dt) ==
    IF j > Cardinality(DOMAIN N) THEN N
    ELSE SetAllNodes(setNewNodeState(N, L, j, dt), L, j + 1, dt)

RECURSIVE SetAllLinkNodes(_, _, _)
SetAllLinkNodes(N, L, j) ==
    IF j > Cardinality(DOMAIN L) THEN N
    ELSE SetAllLinkNodes(setNewLinkState_Nodes(N, L[j]), L, j + 1)

\* the depths of the nodes before the loop of setNewLinkState and after
\* each of its calls
RECURSIVE LinkNodeDepths(_, _, _)
LinkNodeDepths(N, L, j) ==
    <<[n \in DOMAIN N |-> N[n].newDepth]>>
    \o (IF j > Cardinality(DOMAIN L) THEN <<>>
        ELSE LinkNodeDepths(setNewLinkState_Nodes(N, L[j]), L, j + 1))

\* flowrout_execute (flowrout.c 147-164): the error test, the reset of every
\* node and the hand-over to the dynamic wave solver
ResetNode(n, tStep) ==
    [n EXCEPT !.updated = FALSE, !.at = <<>>,
              !.overflow = IF n.type # "STORAGE" /\ n.newVolume > n.fullVolume
                           THEN (n.newVolume - n.fullVolume) \div tStep
                           ELSE 0]

\* flowrout_execute without the test of the error code at line 148
flowrout_begin_NoErrorTest ==
    /\ rt.pc = "idle"
    /\ Node' = [j \in DOMAIN Node |-> ResetNode(Node[j], rt.tStep)]
    /\ IF rt.model = "DW"
       THEN rt' = [rt EXCEPT !.pc = "done", !.ret = dynwave_execute(rt.tStep)]
       ELSE rt' = [rt EXCEPT !.pc = "links", !.i = 1, !.steps = 0]
    /\ UNCHANGED <<outVars, layout, ErrorCode, Link, AllowPonding, sortedLinks,
                   projVars, fileVars, runoffVars>>

flowrout_begin ==
    /\ rt.pc = "idle"
    /\ IF ErrorCode # 0
       THEN /\ rt' = [rt EXCEPT !.pc = "done", !.ret = 0]
            /\ UNCHANGED <<Node, Link>>
       ELSE /\ Node' = [j \in DOMAIN Node |-> ResetNode(Node[j], rt.tStep)]
            /\ IF rt.model = "DW"
               THEN rt' = [rt EXCEPT !.pc = "done", !.ret = dynwave_execute(rt.tStep)]
               ELSE rt' = [rt EXCEPT !.pc = "links", !.i = 1, !.steps = 0]
            /\ UNCHANGED Link
    /\ UNCHANGED <<outVars, layout, ErrorCode, AllowPonding, sortedLinks, projVars,
                   fileVars, runoffVars>>

\* flowrout_execute (flowrout.c 168-187): one pass of the loop over links
flowrout_link ==
    /\ rt.pc = "links"
    /\ rt.i <= Len(sortedLinks)
    /\ LET j == sortedLinks[rt.i]
           n1 == Link[j].node1
           N1 == IF Node[n1].type = "STORAGE"
                 THEN updateStorageState(Node, Link, n1, rt.i, sortedLinks, rt.tStep)
                 ELSE Node
           qin0 == getLinkInflow(N1, Link, j, rt.tStep)
       IN  \E k \in KwOutcomes :
             LET r == IF rt.model = "SF"
                      THEN steadyflow_execute(Link, j, qin0, rt.tStep)
                      ELSE kinwave_execute(Link, j, qin0, rt.tStep, k)
                 n2 == Link[j].node2
             IN  /\ Link' = [Link EXCEPT ![j] = [r.link EXCEPT !.newFlow = r.qout]]
                 /\ Node' = [N1 EXCEPT ![n1].outflow = N1[n1].outflow + r.qin,
                                       ![n2].inflow = N1[n2].inflow + r.qout]
                 /\ rt' = [rt EXCEPT !.i = rt.i + 1,
                                     !.steps = rt.steps + r.steps,
                                     !.j = j, !.qin0 = qin0,
                                     !.qin = r.qin, !.qout = r.qout]
    /\ UNCHANGED <<outVars, layout, ErrorCode, AllowPonding, sortedLinks, projVars,
                   fileVars, runoffVars>>

\* flowrout_execute (flowrout.c 188-193): the closing loops over nodes and links
flowrout_finish ==
    /\ rt.pc = "links"
    /\ rt.i > Len(sortedLinks)
    /\ LET nl == Len(sortedLinks)
           N1 == SetAllNodes(Node, Link, 1, rt.tStep)
       IN  /\ Node' = SetAllLinkNodes(N1, Link, 1)
           /\ Link' = [j \in DOMAIN Link |-> setNewLinkState_Link(Link[j])]
           /\ rt' = [rt EXCEPT !.pc = "done",
                               !.depths = LinkNodeDepths(N1, Link, 1),
                               !.ret = IF nl > 0
                                       THEN (2 * rt.steps + nl) \div (2 * nl)
                                       ELSE 0]
    /\ UNCHANGED <<outVars, layout, ErrorCode, AllowPonding, sortedLinks, projVars,
                   fileVars, runoffVars>>

-----------------------------------------------------------------------------
(* validateTreeLayout (flowrout.c 198-265): the layout rules of steady and *)
(* kinematic wave routing, as a predicate on the network.                  *)

Degree(L, n) == Cardinality({j \in DOMAIN L : L[j].node1 = n})

TreeLayoutErrors(N, L) ==
    {<<"ERR_DIVIDER", n>> : n \in {m \in DOMAIN N : N[m].type = "DIVIDER" /\ Degree(L, m) > 2}}
    \cup {<<"ERR_OUTFALL", n>> : n \in {m \in DOMAIN N : N[m].type = "OUTFALL" /\ Degree(L, m) > 0}}
    \cup {<<"ERR_MULTI_OUTLET", n>> : n \in {m \in DOMAIN N : N[m].type = "JUNCTION" /\ Degree(L, m) > 1}}
    \cup {<<"ERR_SLOPE", j>> : j \in {m \in DOMAIN L : L[m].type = "CONDUIT" /\ L[m].slope < 0 /\ L[m].xsect # "DUMMY"}}
    \cup {<<"ERR_REGULATOR", j>> : j \in {m \in DOMAIN L : L[m].type \in Regulators /\ N[L[m].node1].type # "STORAGE"}}

\* links[] is in topological order: a link comes after every link that
\* enters its upstream node (toposort.c)
TopoSorted(L, links) ==
    \A a, b \in 1..Len(links) :
        L[links[a]].node2 = L[links[b]].node1 => a < b

-----------------------------------------------------------------------------
(* The state on entry to a routing step.                                   *)

NodeRec(type, oldVolume, inflow, oldNet, losses, pondedArea) ==
    [type |-> type, updated |-> TRUE, overflow |-> 0,
     area |-> 10,
     fullDepth |-> IF type = "OUTFALL" THEN 0 ELSE 10 * UNIT,
     fullVolume |-> IF type = "STORAGE" THEN 100 * UNIT
                    ELSE IF type = "DIVIDER" THEN 20 * UNIT ELSE 0,
     pondedArea |-> pondedArea,
     oldVolume |-> oldVolume, newVolume |-> oldVolume,
     newDepth |-> IF type = "STORAGE" THEN oldVolume \div 10 ELSE 0,
     inflow |-> inflow, outflow |-> losses, losses |-> losses,
     oldNetInflow |-> oldNet,
     newLatFlow |-> 0, hrt |-> 0, newQual |-> <<>>,
     iter |-> 0, stopped |-> FALSE, at |-> <<>>]

LinkRec(type, xsect, n1, n2, barrels, lossRate) ==
    [type |-> type, xsect |-> xsect, node1 |-> n1, node2 |-> n2,
     barrels |-> barrels, lossRate |-> lossRate, slope |-> 1,
     qFull |-> 8 * UNIT, aFull |-> 3 * UNIT, yFull |-> 2 * UNIT,
     sFull |-> 8 * UNIT, beta |-> 1, length |-> 100,
     rating |-> 1, setting |-> 1, offset1 |-> 0, offset2 |-> UNIT \div 2,
     a1 |-> 0, a2 |-> 0, q1 |-> 0, q2 |-> 0, q1Old |-> 0, q2Old |-> 0,
     newFlow |-> 0, newDepth |-> 0, newVolume |-> 0,
     targetSetting |-> 1, newQual |-> <<>>,
     capacityLimited |-> FALSE, fullState |-> "NOT_FULL"]

LinkKinds == {<<"CONDUIT", "CIRCULAR">>, <<"CONDUIT", "DUMMY">>,
              <<"PUMP", "NONE">>, <<"ORIFICE", "NONE">>, <<"WEIR", "NONE">>}

\* a TFile that is not in use: no stream was ever opened for it
NoFile == [mode |-> "NO_FILE", file |-> "NULL", open |-> FALSE, exists |-> FALSE,
           data |-> <<>>, pos |-> 0, eof |-> FALSE]

\* no call of hotstart_open, hotstart_close, runoff_open, runoff_close yet;
\* entry and exit are the error code when hotstart_open was entered and when
\* it returned, nanAt the position of the first NaN it read (-1 if none) and
\* nanBy the function that read it, log the fields it applied, made the way
\* the hot start file was made
HotIdle == [open |-> "idle", close |-> "idle", ropen |-> "idle",
            rclose |-> "idle", entry |-> 0, exit |-> 0, nanAt |-> 0 - 1,
            nanBy |-> "", log |-> <<>>, made |-> [version |-> 0, fault |-> "none", n |-> 0]]

\* nothing of the output module is in use
OutputIdle ==
    [pc |-> "closed", NumPolluts |-> 0, NsubcatchResults |-> 0, NnodeResults |-> 0,
     NlinkResults |-> 0, NumSubcatch |-> 0, NumNodes |-> 0, NumLinks |-> 0,
     BytesPerPeriod |-> 0, IDStartPos |-> 0, InputStartPos |-> 0,
     OutputStartPos |-> 0, Nperiods |-> 0,
     SubcatchResults |-> <<>>, NodeResults |-> <<>>, LinkResults |-> <<>>,
     SysResults |-> Zeros(MAX_SYS_RESULTS), days |-> NO_DATE,
     calls |-> 0, saved |-> <<>>, last |-> [op |-> "none", period |-> 0, index |-> 0],
     reads |-> 0]

\* the output file before output_open: the name of the project's file, if
\* any, and whether a file of that name can be opened
OutFile(name, exists) ==
    [mode |-> "NO_FILE", file |-> "NULL", open |-> FALSE, exists |-> exists,
     data |-> <<>>, pos |-> 0, eof |-> FALSE, name |-> name]

\* the output module before output_open
OutputAtRest ==
    /\ Fout = OutFile("", TRUE)
    /\ otpt = OutputIdle
    /\ RptFlag = [SUBCATCH |-> <<>>, NODE |-> <<>>, LINK |-> <<>>]

RunoffIdle == [IsRaining |-> FALSE, HasRunoff |-> FALSE, HasSnow |-> FALSE,
               HasWetLids |-> FALSE, Nsteps |-> 0, MaxSteps |-> 0, MaxStepsPos |-> 0,
               OutflowLoad |-> "NULL", odeOpen |-> FALSE]

\* the analysis options of a project without a runoff calculation: the
\* durations and steps (sec, TotalDuration in msec), the days of the sweeping
\* season, the evaporation rate and the buffer sp->OutputExport.SubcatchResults
NoRunoffOptions ==
    [TotalDuration |-> 0, DryStep |-> 60, WetStep |-> 60, ReportStep |-> 60,
     SweepStart |-> 1, SweepEnd |-> 365, IgnoreSnowmelt |-> TRUE,
     IgnoreQuality |-> TRUE, IgnoreGwater |-> TRUE,
     Evap |-> [rate |-> 0, dryOnly |-> FALSE], StartDay |-> 1,
     NextEvapDate |-> 0, SubcatchResults |-> Zeros(8)]

\* no call of runoff_execute yet; path is the way the last call took, t the
\* current date, wet whether a wet condition held when runoff_getTimeStep
\* was called, timeStep what it returned, routed the runon, sub-area inflows
\* and loads of each subcatchment when the loop over subcatch_getRunon has
\* ended, vRunon the runon volume that subcatch_getRunoff found for each
\* subcatchment, steps the time step it was called with, deposition the
\* loads handed to massbal_updateLoadingTotals as DEPOSITION_LOAD,
\* runoffStep the step handed to the subcatchments, calls the surface
\* quality functions it called for each subcatchment, totals the volumes it
\* handed to massbal_updateRunoffTotals and overrun whether it read or wrote
\* beyond the end of the buffer sp->OutputExport.SubcatchResults
TickIdle ==
    [path |-> "none", runoffStep |-> 0, oldRunoffStep |-> 0, canSweep |-> FALSE,
     day |-> 0, calls |-> <<>>, overrun |-> FALSE, t |-> 0, wet |-> FALSE,
     timeStep |-> 0, routed |-> <<>>, vRunon |-> <<>>, steps |-> <<>>, ponded |-> <<>>,
     deposition |-> <<>>,
     totals |-> [RUNON |-> 0, RAINFALL |-> 0, EVAP |-> 0, INFIL |-> 0,
                 RUNOFF |-> 0]]

\* a project whose runoff is not computed
RunoffAtRest ==
    /\ OldRunoffTime = 0 /\ NewRunoffTime = 0
    /\ Gage = <<>> /\ Outfall = <<>>
    /\ sp = NoRunoffOptions
    /\ tick = TickIdle

\* flowrout_init has not been called: no error reported, no degree set
LayoutIdle == [pc |-> "new", errors |-> <<>>, degree |-> <<>>, entry |-> 0]

RouteIdle == [pc |-> "idle", i |-> 0, model |-> "SF", tStep |-> 60,
              steps |-> 0, j |-> 0, qin0 |-> 0, qin |-> 0, qout |-> 0, ret |-> 0,
              depths |-> <<>>]

InitRouting ==
    /\ layout = LayoutIdle
    /\ OutputAtRest
    /\ ErrorCode = ERR_NONE
    /\ \E pond \in {<<FALSE, 10>>, <<TRUE, 10>>} :
       \E t1 \in {"STORAGE", "DIVIDER"}, t2 \in {"JUNCTION", "STORAGE"},
          t3 \in {"OUTFALL", "STORAGE"} :
       \E q1 \in InflowLevels, v1 \in OldVolLevels,
          net1 \in {0 - 5 * UNIT, 0} :
         /\ AllowPonding = pond[1]
         /\ Node = <<NodeRec(t1, v1, q1, net1, UNIT \div 10, pond[2]),
                     NodeRec(t2, 0, 0, 0, 0, pond[2]),
                     NodeRec(t3, 0, 0, 0, 0, 0)>>
    /\ \E k1 \in LinkKinds \ {<<"PUMP", "NONE">>, <<"WEIR", "NONE">>},
          k2 \in {<<"CONDUIT", "CIRCULAR">>, <<"PUMP", "NONE">>},
          k3 \in {<<"CONDUIT", "CIRCULAR">>, <<"WEIR", "NONE">>} :
       \E offset1 \in IF k3[1] = "CONDUIT" THEN InletOffsets ELSE {0} :
         Link = <<LinkRec(k1[1], k1[2], 1, 2, 1, 0),
                  LinkRec(k2[1], k2[2], 2, 3, 1, UNIT),
                  [LinkRec(k3[1], k3[2], 1, 3, 2, 0) EXCEPT !.offset1 = offset1]>>
    /\ TreeLayoutErrors(Node, Link) = {}
    /\ sortedLinks \in {<<1, 3, 2>>, <<3, 1, 2>>, <<1, 2, 3>>}
    /\ TopoSorted(Link, sortedLinks)
    /\ \E m \in {"SF", "KW"}, dt \in TimeSteps :
         rt = [RouteIdle EXCEPT !.model = m, !.tStep = dt]
    /\ Nobjects = [SUBCATCH |-> 0, LANDUSE |-> 0, NODE |-> Len(Node),
                   LINK |-> Len(Link), POLLUT |-> 0]
    /\ FlowUnits = 0
    /\ Subcatch = <<>>
    /\ Fhotstart1 = NoFile /\ Fhotstart2 = NoFile /\ Frunoff = NoFile
    /\ FileVersion = 0
    /\ RunoffShared = RunoffIdle
    /\ hot = HotIdle
    /\ RunoffAtRest

Next ==
    \/ flowrout_begin
    \/ flowrout_link
    \/ flowrout_finish

Spec == InitRouting /\ [][Next]_vars

-----------------------------------------------------------------------------
(* Properties of a routing step.                                           *)

\* flowrout_execute has returned from a steady or kinematic wave step
RoutingDone == rt.pc = "done" /\ ErrorCode = 0 /\ rt.model \in {"SF", "KW"}

\* C1 as stated: after a steady flow or kinematic wave step every node,
\* whatever its type, has updated = TRUE.
C1_AllNodesUpdated ==
    RoutingDone => \A j \in DOMAIN Node : Node[j].updated

\* C1 amended: after a steady flow or kinematic wave step the updated flag
\* is TRUE for exactly the storage nodes; every other node keeps FALSE.
C1_StorageNodesUpdated ==
    RoutingDone => \A j \in DOMAIN Node : Node[j].updated = (Node[j].type = "STORAGE")

C1_Witness ==
    /\ RoutingDone
    /\ \E j \in DOMAIN Node : Node[j].type = "STORAGE" /\ Node[j].updated
    /\ \E j \in DOMAIN Node : Node[j].type = "JUNCTION" /\ ~Node[j].updated
    /\ \E j \in DOMAIN Node : Node[j].type = "OUTFALL" /\ ~Node[j].updated

\* C2: after every steady flow or kinematic wave step with tStep > 0 every
\* node, storage or not, has overflow >= 0 and newVolume >= 0.
C2_NonNegative ==
    (RoutingDone /\ rt.tStep > 0) =>
        \A j \in DOMAIN Node : Node[j].overflow >= 0 /\ Node[j].newVolume >= 0

C2_Witness ==
    /\ RoutingDone /\ rt.tStep > 0
    /\ \E j \in DOMAIN Node : Node[j].type = "STORAGE" /\ Node[j].overflow > 0
    /\ \E j \in DOMAIN Node : Node[j].type # "STORAGE" /\ Node[j].overflow > 0
    /\ \E j \in DOMAIN Node : Node[j].type # "STORAGE" /\ Node[j].newVolume > 0

\* C3: the updater of a storage node stops at the first pass whose
\* under-relaxed depth change is within STOPTOL and otherwise makes exactly
\* MAXITER passes; the node is then marked updated and no error is raised.
\* (On leaving the loop `iter` is one more than the number of passes made.)
C3_StopsOrMaxIter ==
    \A j \in DOMAIN Node :
        (Node[j].type = "STORAGE" /\ Node[j].updated /\ rt.pc # "idle") =>
            /\ Node[j].stopped \/ Node[j].iter - 1 = MAXITER
            /\ ErrorCode = 0

\* C4 as stated: steady flow routing limits every conduit, whatever its
\* cross-section, to its capacity; any other link passes its inflow.
SteadyRouted == rt.model = "SF" /\ rt.pc \in {"links", "done"} /\ rt.j # 0

C4_q == LET l == Link[rt.j]
        IN  MAX((rt.qin0 \div l.barrels) - l.lossRate, 0)

C4_CapacityRule(l) ==
    IF C4_q > l.qFull
    THEN /\ rt.qin = l.qFull * l.barrels
         /\ l.a1 = l.aFull /\ l.a2 = l.aFull
         /\ rt.qout = l.qFull * l.barrels
    ELSE /\ rt.qout = C4_q * l.barrels
         /\ rt.qin = rt.qin0

C4_EveryConduitLimited ==
    SteadyRouted =>
        LET l == Link[rt.j]
        IN  IF l.type = "CONDUIT"
            THEN C4_CapacityRule(l) /\ rt.qout <= l.qFull * l.barrels
            ELSE rt.qout = rt.qin0

\* C4 amended: the capacity rule holds for every conduit whose cross-section
\* is not DUMMY; a DUMMY conduit gets a1 = a2 = 0 and passes its inflow
\* unlimited and without losses, like a link that is no conduit.
C4_RealConduitLimited ==
    SteadyRouted =>
        LET l == Link[rt.j]
        IN  IF l.type = "CONDUIT" /\ l.xsect # "DUMMY"
            THEN C4_CapacityRule(l) /\ rt.qout <= l.qFull * l.barrels
            ELSE IF l.type = "CONDUIT"
            THEN /\ l.a1 = 0 /\ l.a2 = 0
                 /\ rt.qin = rt.qin0
                 /\ rt.qout = (rt.qin0 \div l.barrels) * l.barrels
            ELSE rt.qout = rt.qin0

C4_Witness ==
    /\ SteadyRouted
    /\ Link[rt.j].type = "CONDUIT" /\ Link[rt.j].xsect # "DUMMY"
    /\ C4_q > Link[rt.j].qFull
    /\ rt.qin < rt.qin0
    /\ \E k \in DOMAIN Link : Link[k].xsect = "DUMMY" /\ Link[k].newFlow > Link[k].qFull

\* C5: when a storage node is updated, the outflow of its volume balance is
\* the sum of getLinkInflow over every link leaving the node, wherever those
\* links stand in the sorted link array.
RECURSIVE SumLinkInflow(_, _, _, _)
SumLinkInflow(N, L, S, dt) ==
    IF S = {} THEN 0
    ELSE LET m == CHOOSE x \in S : TRUE
         IN  getLinkInflow(N, L, m, dt) + SumLinkInflow(N, L, S \ {m}, dt)

C5_OutflowOverAllLinks ==
    (rt.pc = "links" /\ rt.i <= Len(sortedLinks)) =>
        LET n1 == Link[sortedLinks[rt.i]].node1
        IN  (Node[n1].type = "STORAGE" /\ ~Node[n1].updated) =>
                getStorageOutflow(Node, Link, n1, rt.i, sortedLinks, rt.tStep)
                = SumLinkInflow(Node, Link,
                                {m \in DOMAIN Link : Link[m].node1 = n1}, rt.tStep)

\* C6: after every steady flow or kinematic wave step every conduit has
\* 0 <= newDepth <= yFull and end areas a1, a2 within [0, aFull].
C6_ConduitWithinSection ==
    RoutingDone =>
        \A j \in DOMAIN Link :
            Link[j].type = "CONDUIT" =>
                /\ 0 <= Link[j].newDepth /\ Link[j].newDepth <= Link[j].yFull
                /\ 0 <= Link[j].a1 /\ Link[j].a1 <= Link[j].aFull
                /\ 0 <= Link[j].a2 /\ Link[j].a2 <= Link[j].aFull

C6_Witness ==
    /\ RoutingDone
    /\ \E j \in DOMAIN Link :
           Link[j].type = "CONDUIT" /\ Link[j].a1 = Link[j].aFull
           /\ Link[j].newDepth = Link[j].yFull
    /\ \E j \in DOMAIN Link :
           Link[j].type = "CONDUIT" /\ 0 < Link[j].a2 /\ Link[j].a2 < Link[j].a1

-----------------------------------------------------------------------------
(* Binary files.  A file is a sequence of bytes 0..255.  A stream is a     *)
(* file with a read position and the end-of-file indicator that a short    *)
(* read sets.  Integers are 4 bytes and floating point numbers are IEEE    *)
(* 754 singles and doubles, both stored low byte first.                    *)

\* fread(buf, sizeof(char), n, f): up to n characters replace the start of buf
freadChars(f, buf, n) ==
    LET k == MIN(n, Len(f.data) - f.pos)
    IN  [buf |-> SubSeq(f.data, f.pos + 1, f.pos + k) \o SubSeq(buf, k + 1, Len(buf)),
         f |-> [f EXCEPT !.pos = f.pos + k, !.eof = f.eof \/ k < n]]

\* fread(&x, size, 1, f): one whole item, or none at the end of the file
freadItem(f, size) ==
    IF Len(f.data) - f.pos >= size
    THEN [n |-> 1, bytes |-> SubSeq(f.data, f.pos + 1, f.pos + size),
          f |-> [f EXCEPT !.pos = f.pos + size]]
    ELSE [n |-> 0, bytes |-> <<>>,
          f |-> [f EXCEPT !.pos = Len(f.data), !.eof = TRUE]]

\* rewind(f)
rewind(f) == [f EXCEPT !.pos = 0, !.eof = FALSE]

\* strlen and strcmp on character arrays that end with a NUL
RECURSIVE strlen(_)
strlen(s) == IF s = <<>> \/ Head(s) = 0 THEN 0 ELSE 1 + strlen(Tail(s))

strcmp(a, b) == IF SubSeq(a, 1, strlen(a)) = SubSeq(b, 1, strlen(b)) THEN 0 ELSE 1

\* an int as it lies in the file, and back
IntBytes(n) == <<n % 256, (n \div 256) % 256, (n \div 65536) % 256,
                 (n \div 16777216) % 256>>

BytesInt(b) == b[1] + 256 * b[2] + 65536 * b[3]
               + 16777216 * (IF b[4] >= 128 THEN b[4] - 256 ELSE b[4])

\* fread(&n, sizeof(int), 1, f) into an int that holds cur
freadInt(f, cur) ==
    LET r == freadItem(f, 4)
    IN  [val |-> IF r.n = 1 THEN BytesInt(r.bytes) ELSE cur, f |-> r.f]

\* one fread after the other into ints that hold the values cur
RECURSIVE freadInts(_, _, _)
freadIntsNext(r, cur, vals) == freadInts(r.f, cur, Append(vals, r.val))

freadInts(f, cur, vals) ==
    IF cur = <<>> THEN [vals |-> vals, f |-> f]
    ELSE freadIntsNext(freadInt(f, Head(cur)), Tail(cur), vals)

\* fwrite of bytes at the position of the stream
fwrite(F, bytes) ==
    [F EXCEPT !.data = SubSeq(F.data, 1, F.pos) \o bytes
                       \o SubSeq(F.data, F.pos + Len(bytes) + 1, Len(F.data)),
              !.pos = F.pos + Len(bytes)]

\* An IEEE 754 number is a sign bit, an exponent field and a fraction.  The
\* fixed point value of a stored number with exponent field e (bias taken
\* off) and leading 23 fraction bits f, to the nearest unit; a magnitude of
\* 2^17 or more, which no state of the model holds, is shown as 2^30 units
ieeeValue(negative, zero, huge, e, f) ==
    LET sign == IF negative THEN 0 - 1 ELSE 1
        hi == 2^14 + f \div 2^9
        lo == f % (2^9)
        k == e - 14
        n == 0 - k
    IN  IF zero THEN 0
        ELSE IF huge \/ k > 2 THEN sign * 2^30
        ELSE IF k >= 0 THEN sign * (hi * UNIT * 2^k + (lo * UNIT * 2^k) \div 2^9)
        ELSE IF n > 30 THEN 0
        ELSE sign * ((hi * UNIT) \div 2^n
                     + (((hi * UNIT) % (2^n)) + ((lo * UNIT) \div 2^9) + 2^(n - 1)) \div 2^n)

\* a float: 8 exponent bits (bias 127) and 23 fraction bits
FloatExp(b) == (b[4] % 128) * 2 + b[3] \div 128
FloatFrac(b) == (b[3] % 128) * 65536 + b[2] * 256 + b[1]
FloatIsNaN(b) == FloatExp(b) = 255 /\ FloatFrac(b) # 0
FloatValue(b) ==
    ieeeValue(b[4] >= 128, FloatExp(b) = 0, FloatExp(b) = 255,
              FloatExp(b) - 127, FloatFrac(b))

\* a double: 11 exponent bits (bias 1023) and 52 fraction bits
DoubleExp(b) == (b[8] % 128) * 16 + b[7] \div 16
DoubleIsNaN(b) ==
    /\ DoubleExp(b) = 2047
    /\ (b[7] % 16 # 0 \/ \E k \in 1..6 : b[k] # 0)
DoubleValue(b) ==
    ieeeValue(b[8] >= 128, DoubleExp(b) = 0, DoubleExp(b) = 2047,
              DoubleExp(b) - 1023,
              (b[7] % 16) * 524288 + b[6] * 2048 + b[5] * 8 + b[4] \div 32)

\* the exponent of a positive fixed point value a: 2^k <= a / UNIT < 2^(k+1)
RECURSIVE Exp2Up(_, _)
Exp2Up(a, k) == IF UNIT * 2^(k + 1) <= a THEN Exp2Up(a, k + 1) ELSE k

RECURSIVE Exp2Down(_, _)
Exp2Down(a, j) == IF a * 2^j >= UNIT THEN j ELSE Exp2Down(a, j + 1)

\* the next n fraction bits of (r + D) / D for 0 <= r < D, as a number, and
\* the remainder that is left
RECURSIVE FracBits(_, _, _)
FracBits(r, D, n) ==
    IF n = 0 THEN <<0, r>>
    ELSE LET bit == IF 2 * r >= D THEN 1 ELSE 0
             rest == FracBits(2 * r - bit * D, D, n - 1)
         IN  <<bit * 2^(n - 1) + rest[1], rest[2]>>

\* the fraction of a / UNIT for exponent k: the leading digit of n0 bits and
\* count further bytes, high byte first, and the bit that follows them
RECURSIVE FracBytes(_, _, _)
FracBytes(r, D, count) ==
    IF count = 0 THEN <<FracBits(r, D, 1)[1]>>
    ELSE LET d == FracBits(r, D, 8)
         IN  <<d[1]>> \o FracBytes(d[2], D, count - 1)

FracDigits(d, D, count) == <<d[1]>> \o FracBytes(d[2], D, count)

ieeeFraction(a, k, n0, count) ==
    LET D == IF k >= 0 THEN UNIT * 2^k ELSE UNIT
        r == (IF k >= 0 THEN a ELSE a * 2^(0 - k)) - D
    IN  FracDigits(FracBits(r, D, n0), D, count)

\* digits (base 2^n0 for the first, 256 for the others) plus one: the carry
\* out, then the digits
RECURSIVE DigitsIncr(_, _)
DigitsIncr(ds, n0) ==
    IF Len(ds) = 1
    THEN <<(ds[1] + 1) \div 2^n0, (ds[1] + 1) % (2^n0)>>
    ELSE LET last == ds[Len(ds)]
             front == SubSeq(ds, 1, Len(ds) - 1)
         IN  IF last < 255 THEN <<0>> \o front \o <<last + 1>>
             ELSE DigitsIncr(front, n0) \o <<0>>

\* exponent field ef and fraction digits of a / UNIT rounded to the nearest
\* number with n0 + 8 * count fraction bits
Exp2(a) == IF a >= UNIT THEN Exp2Up(a, 0) ELSE 0 - Exp2Down(a, 1)

ieeeCarry(fr, n0, count) ==
    IF fr[count + 2] = 1 THEN DigitsIncr(SubSeq(fr, 1, count + 1), n0)
    ELSE <<0>> \o SubSeq(fr, 1, count + 1)

ieeeFields(k, bias, up) == [ef |-> k + bias + up[1], ds |-> Tail(up)]

ieeeRoundedAt(a, k, bias, n0, count) ==
    ieeeFields(k, bias, ieeeCarry(ieeeFraction(a, k, n0, count), n0, count))

ieeeRounded(a, bias, n0, count) == ieeeRoundedAt(a, Exp2(a), bias, n0, count)

\* (float) v as it lies in the file
FloatPacked(negative, r) ==
    <<r.ds[3], r.ds[2], (r.ef % 2) * 128 + r.ds[1],
      (IF negative THEN 128 ELSE 0) + r.ef \div 2>>

FloatBytes(v) ==
    IF v = 0 THEN <<0, 0, 0, 0>>
    ELSE FloatPacked(v < 0, ieeeRounded(ABS(v), 127, 7, 2))

\* the double v as it lies in the file
DoublePacked(negative, r) ==
    <<r.ds[7], r.ds[6], r.ds[5], r.ds[4], r.ds[3], r.ds[2],
      (r.ef % 16) * 16 + r.ds[1],
      (IF negative THEN 128 ELSE 0) + r.ef \div 16>>

DoubleBytes(v) ==
    IF v = 0 THEN <<0, 0, 0, 0, 0, 0, 0, 0>>
    ELSE DoublePacked(v < 0, ieeeRounded(ABS(v), 1023, 4, 6))

FloatNaN == <<0, 0, 192, 127>>
DoubleNaN == <<0, 0, 0, 0, 0, 0, 248, 127>>

-----------------------------------------------------------------------------
(* hotstart.c: the hot start file that is written.                         *)

RECURSIVE Concat(_)
Concat(ss) == IF ss = <<>> THEN <<>> ELSE Head(ss) \o Concat(Tail(ss))

\* the character arrays of openHotstartFile1 and openHotstartFile2, each with
\* its closing NUL: "SWMM5-HOTSTART" and the same followed by x, 2, 3, 4
fileStamp == <<83, 87, 77, 77, 53, 45, 72, 79, 84, 83, 84, 65, 82, 84, 0>>
fStampx == SubSeq(fileStamp, 1, 14) \o <<120, 0>>
fileStamp2 == SubSeq(fileStamp, 1, 14) \o <<50, 0>>
fileStamp3 == SubSeq(fileStamp, 1, 14) \o <<51, 0>>
fileStamp4 == SubSeq(fileStamp, 1, 14) \o <<52, 0>>

\* fwrite(s, sizeof(char), strlen(s), f)
StampChars(s) == SubSeq(s, 1, strlen(s))

\* saveRouting (hotstart.c 228-271): the floats written, one item apiece
saveRouting(N, L, nPollut) ==
    Concat([i \in 1..Len(N) |->
              <<FloatBytes(N[i].newDepth), FloatBytes(N[i].newLatFlow)>>
              \o (IF N[i].type = "STORAGE" THEN <<FloatBytes(N[i].hrt)>> ELSE <<>>)
              \o [j \in 1..nPollut |-> FloatBytes(N[i].newQual[j])]])
    \o Concat([i \in 1..Len(L) |->
              <<FloatBytes(L[i].newFlow), FloatBytes(L[i].newDepth),
                FloatBytes(L[i].setting)>>
              \o [j \in 1..nPollut |-> FloatBytes(L[i].newQual[j])]])

\* saveRunoff (hotstart.c 367-433): the doubles written, one item apiece;
\* infil_getState, gwater_getState and snow_getState hand over the stored
\* infiltration, groundwater and snow pack state
saveRunoff(S, nPollut, nLandUses) ==
    Concat([i \in 1..Len(S) |->
              [j \in 1..3 |-> DoubleBytes(S[i].subArea[j].depth)]
              \o <<DoubleBytes(S[i].newRunoff)>>
              \o [j \in 1..6 |-> DoubleBytes(S[i].infil[j])]
              \o (IF S[i].groundwater
                  THEN [j \in 1..4 |-> DoubleBytes(S[i].gw[j])] ELSE <<>>)
              \o (IF S[i].snowpack
                  THEN Concat([j \in 1..3 |->
                                 [k \in 1..5 |-> DoubleBytes(S[i].snow[j][k])]])
                  ELSE <<>>)
              \o (IF nPollut > 0
                  THEN [j \in 1..nPollut |-> DoubleBytes(S[i].newQual[j])]
                       \o [j \in 1..nPollut |-> DoubleBytes(S[i].pondedQual[j])]
                       \o Concat([k \in 1..nLandUses |->
                                    [j \in 1..nPollut |->
                                       DoubleBytes(S[i].landFactor[k].buildup[j])]
                                    \o <<DoubleBytes(S[i].landFactor[k].lastSwept)>>])
                  ELSE <<>>)])

\* openHotstartFile2 (hotstart.c 186-224)
openHotstartFile2(F2, err, nobj, units) ==
    IF F2.mode # "SAVE_FILE" THEN [ret |-> TRUE, ErrorCode |-> err, F |-> F2]
    ELSE IF ~F2.exists
    THEN [ret |-> FALSE, ErrorCode |-> ERR_HOTSTART_FILE_OPEN, F |-> F2]
    ELSE LET d == StampChars(fileStamp4)
                  \o IntBytes(nobj.SUBCATCH) \o IntBytes(nobj.LANDUSE)
                  \o IntBytes(nobj.NODE) \o IntBytes(nobj.LINK)
                  \o IntBytes(nobj.POLLUT) \o IntBytes(units)
         IN  [ret |-> TRUE, ErrorCode |-> err,
              F |-> [F2 EXCEPT !.file = "FILE", !.open = TRUE, !.eof = FALSE,
                               !.data = d, !.pos = Len(d)]]

-----------------------------------------------------------------------------
(* hotstart.c: the hot start file that is read.  The reader's state rs     *)
(* holds the stream f, the error code, the project's objects, the local    *)
(* float x of readRouting (its bytes), the local array x of readRunoff, the *)
(* array xgw, the value d and the result ok of the last read, the position *)
(* nanAt of the first NaN met (-1 if none) with the function nanBy that    *)
(* read it, and the log of the fields that were applied to the project,    *)
(* each with the file position it came from.                               *)

\* readFloat (hotstart.c 506-524)
readFloat(rs) ==
    LET r == freadItem(rs.f, 4)
        x == IF r.n = 1 THEN r.bytes ELSE rs.x
    IN  IF FloatIsNaN(x)
        THEN [rs EXCEPT !.f = r.f, !.ErrorCode = ERR_HOTSTART_FILE_READ,
                        !.x = FloatBytes(0), !.ok = FALSE,
                        !.nanAt = IF rs.nanAt < 0 THEN rs.f.pos ELSE rs.nanAt,
                        !.nanBy = IF rs.nanAt < 0 THEN "readFloat" ELSE rs.nanBy]
        ELSE [rs EXCEPT !.f = r.f, !.x = x, !.ok = TRUE]

\* readDouble (hotstart.c 528-551) into a double that holds cur
readDouble(rs, cur) ==
    IF rs.f.eof
    THEN [rs EXCEPT !.d = 0, !.ErrorCode = ERR_HOTSTART_FILE_READ, !.ok = FALSE]
    ELSE LET r == freadItem(rs.f, 8)
         IN  IF r.n = 1 /\ DoubleIsNaN(r.bytes)
             THEN [rs EXCEPT !.f = r.f, !.d = 0, !.ok = FALSE,
                             !.nanAt = IF rs.nanAt < 0 THEN rs.f.pos ELSE rs.nanAt,
                             !.nanBy = IF rs.nanAt < 0 THEN "readDouble" ELSE rs.nanBy]
             ELSE [rs EXCEPT !.f = r.f, !.ok = TRUE,
                             !.d = IF r.n = 1 THEN DoubleValue(r.bytes) ELSE cur]

\* the targets of readRunoff (hotstart.c 448-501) in the order of its reads:
\* a field of subcatchment i, an element of the local array x, or the call
\* that hands x to the infiltration, groundwater or snow pack object
RunoffFields(S, nPollut, nLandUses) ==
    Concat([i \in 1..Len(S) |->
              [j \in 1..3 |-> <<"depth", i, j, 0>>]
              \o <<<<"newRunoff", i, 0, 0>>>>
              \o [j \in 1..6 |-> <<"x", i, j, 0>>]
              \o <<<<"infil_setState", i, 0, 0>>>>
              \o (IF S[i].groundwater
                  THEN [j \in 1..4 |-> <<"x", i, j, 0>>]
                       \o <<<<"gwater_setState", i, 0, 0>>>>
                  ELSE <<>>)
              \o (IF S[i].snowpack
                  THEN Concat([j \in 1..3 |->
                                 [k \in 1..5 |-> <<"x", i, k, 0>>]
                                 \o <<<<"snow_setState", i, j, 0>>>>])
                  ELSE <<>>)
              \o (IF nPollut > 0
                  THEN [j \in 1..nPollut |-> <<"newQual", i, j, 0>>]
                       \o [j \in 1..nPollut |-> <<"pondedQual", i, j, 0>>]
                       \o Concat([k \in 1..nLandUses |->
                                    [j \in 1..nPollut |-> <<"buildup", i, k, j>>]
                                    \o <<<<"lastSwept", i, k, 0>>>>])
                  ELSE <<>>)])

SetStateCalls == {"infil_setState", "gwater_setState", "snow_setState"}

\* the double that target t holds
runoffTarget(rs, t) ==
    LET i == t[2] IN
    CASE t[1] = "depth"      -> rs.Subcatch[i].subArea[t[3]].depth
      [] t[1] = "newRunoff"  -> rs.Subcatch[i].newRunoff
      [] t[1] = "x"          -> rs.xd[t[3]]
      [] t[1] = "newQual"    -> rs.Subcatch[i].newQual[t[3]]
      [] t[1] = "pondedQual" -> rs.Subcatch[i].pondedQual[t[3]]
      [] t[1] = "buildup"    -> rs.Subcatch[i].landFactor[t[3]].buildup[t[4]]
      [] t[1] = "lastSwept"  -> rs.Subcatch[i].landFactor[t[3]].lastSwept

\* target t takes the value d that was read at file position pos
storeDouble(rs, t, d, pos) ==
    LET i == t[2]
        S == rs.Subcatch
        logged == [rs EXCEPT !.log = Append(rs.log, <<t, pos>>)]
    IN
    CASE t[1] = "depth" ->
           [logged EXCEPT !.Subcatch = [S EXCEPT ![i].subArea[t[3]].depth = d]]
      [] t[1] = "newRunoff" ->
           [logged EXCEPT !.Subcatch = [S EXCEPT ![i].newRunoff = d]]
      [] t[1] = "x" -> [rs EXCEPT !.xd[t[3]] = d]
      [] t[1] = "newQual" ->
           [logged EXCEPT !.Subcatch = [S EXCEPT ![i].newQual[t[3]] = d]]
      [] t[1] = "pondedQual" ->
           [logged EXCEPT !.Subcatch = [S EXCEPT ![i].pondedQual[t[3]] = d]]
      [] t[1] = "buildup" ->
           [logged EXCEPT !.Subcatch = [S EXCEPT ![i].landFactor[t[3]].buildup[t[4]] = d]]
      [] t[1] = "lastSwept" ->
           [logged EXCEPT !.Subcatch = [S EXCEPT ![i].landFactor[t[3]].lastSwept = d]]

\* infil_setState, gwater_setState and snow_setState take over the array,
\* whose last element came from the bytes just read
setState(rs, t, x) ==
    LET i == t[2]
        S == rs.Subcatch
        logged == [rs EXCEPT !.log = Append(rs.log, <<t, rs.f.pos - 1>>)]
    IN
    CASE t[1] = "infil_setState" ->
           [logged EXCEPT !.Subcatch = [S EXCEPT ![i].infil = SubSeq(x, 1, 6)]]
      [] t[1] = "gwater_setState" ->
           [logged EXCEPT !.Subcatch = [S EXCEPT ![i].gw = SubSeq(x, 1, 4)]]
      [] t[1] = "snow_setState" ->
           [logged EXCEPT !.Subcatch = [S EXCEPT ![i].snow[t[3]] = SubSeq(x, 1, 5)]]

\* one read of readRunoff: nothing more is read once a read has failed
readRunoffRead(r, t, pos) == storeDouble(r, t, r.d, pos)

readRunoffStep(rs, t) ==
    IF t[1] \in SetStateCalls THEN setState(rs, t, rs.xd)
    ELSE readRunoffRead(readDouble(rs, runoffTarget(rs, t)), t, rs.f.pos)

\* the reads lo to hi of readRunoff, one after the other
RECURSIVE readRunoffFrom(_, _, _, _)
readRunoffFrom(rs, fields, lo, hi) ==
    IF ~rs.ok \/ lo > hi THEN rs
    ELSE IF lo = hi THEN readRunoffStep(rs, fields[lo])
    ELSE readRunoffFrom(readRunoffFrom(rs, fields, lo, (lo + hi) \div 2),
                        fields, (lo + hi) \div 2 + 1, hi)

\* the reads of fields, one after the other, from a state in which no read
\* has failed
readRunoffAll(rs, fields) == readRunoffFrom([rs EXCEPT !.ok = TRUE], fields, 1, Len(fields))

\* readRunoff (hotstart.c 437-502)
readRunoff(rs, nobj) ==
    readRunoffAll(rs, RunoffFields(rs.Subcatch, nobj.POLLUT, nobj.LANDUSE))

\* the targets of readRouting (hotstart.c 289-362) in the order of its reads
RoutingFields(version, S, N, L, nPollut) ==
    (IF version = 2
     THEN Concat([i \in 1..Len(S) |->
                    <<<<"xgw", i, 1>>, <<"xgw", i, 2>>>>
                    \o (IF S[i].groundwater
                        THEN <<<<"gwater_setState", i, 0>>>> ELSE <<>>)])
     ELSE <<>>)
    \o Concat([i \in 1..Len(N) |->
                 <<<<"node.newDepth", i, 0>>, <<"node.newLatFlow", i, 0>>>>
                 \o (IF version >= 4 /\ N[i].type = "STORAGE"
                     THEN <<<<"node.hrt", i, 0>>>> ELSE <<>>)
                 \o [j \in 1..nPollut |-> <<"node.newQual", i, j>>]
                 \o (IF version <= 2
                     THEN [j \in 1..nPollut |-> <<"unused", i, j>>] ELSE <<>>)])
    \o Concat([i \in 1..Len(L) |->
                 <<<<"link.newFlow", i, 0>>, <<"link.newDepth", i, 0>>,
                   <<"link.setting", i, 0>>>>
                 \o [j \in 1..nPollut |-> <<"link.newQual", i, j>>]])

\* link_setTargetSetting and link_setSetting with a zero time step (link.c):
\* the link takes its target setting at once
link_setSetting(l) == [l EXCEPT !.setting = l.targetSetting]

\* target t takes the float that was read at file position pos
storeValue(rs, t, pos, x) ==
    LET i == t[2]
        logged == [rs EXCEPT !.log = Append(rs.log, <<t, pos>>)]
    IN
    CASE t[1] = "xgw" -> [rs EXCEPT !.xgw[t[3]] = x]
      [] t[1] = "unused" -> rs
      [] t[1] = "node.newDepth" -> [logged EXCEPT !.Node[i].newDepth = x]
      [] t[1] = "node.newLatFlow" -> [logged EXCEPT !.Node[i].newLatFlow = x]
      [] t[1] = "node.hrt" -> [logged EXCEPT !.Node[i].hrt = x]
      [] t[1] = "node.newQual" -> [logged EXCEPT !.Node[i].newQual[t[3]] = x]
      [] t[1] = "link.newFlow" -> [logged EXCEPT !.Link[i].newFlow = x]
      [] t[1] = "link.newDepth" -> [logged EXCEPT !.Link[i].newDepth = x]
      [] t[1] = "link.setting" ->
           [logged EXCEPT !.Link[i] =
               link_setSetting([rs.Link[i] EXCEPT !.setting = x, !.targetSetting = x])]
      [] t[1] = "link.newQual" -> [logged EXCEPT !.Link[i].newQual[t[3]] = x]

storeFloat(rs, t, pos) == storeValue(rs, t, pos, FloatValue(rs.x))

\* one read of readRouting: nothing more is read once a read has failed
readRoutingRead(r, t, pos) == IF r.ok THEN storeFloat(r, t, pos) ELSE r

readRoutingStep(rs, t) ==
    IF t[1] = "gwater_setState" THEN setState(rs, t, rs.xgw)
    ELSE readRoutingRead(readFloat(rs), t, rs.f.pos)

\* the reads lo to hi of readRouting, one after the other
RECURSIVE readRoutingFrom(_, _, _, _)
readRoutingFrom(rs, fields, lo, hi) ==
    IF ~rs.ok \/ lo > hi THEN rs
    ELSE IF lo = hi THEN readRoutingStep(rs, fields[lo])
    ELSE readRoutingFrom(readRoutingFrom(rs, fields, lo, (lo + hi) \div 2),
                         fields, (lo + hi) \div 2 + 1, hi)

readRoutingAll(rs, fields) == readRoutingFrom([rs EXCEPT !.ok = TRUE], fields, 1, Len(fields))

\* readRouting without the test of line 298: the residence time of a storage
\* node is not read
readRouting_NoHrt(rs, version, nobj) ==
    readRoutingAll(rs, RoutingFields(3, rs.Subcatch, rs.Node, rs.Link, nobj.POLLUT))

\* readRouting (hotstart.c 275-363)
readRouting(rs, version, nobj) ==
    readRoutingAll(IF version = 2
                   THEN [rs EXCEPT !.xgw = <<rs.xgw[1], rs.xgw[2], 0, MISSING>>]
                   ELSE rs,
                   RoutingFields(version, rs.Subcatch, rs.Node, rs.Link, nobj.POLLUT))

\* the version that the 15 characters read from the file stand for
HotVersion(buf) ==
    IF strcmp(buf, fileStamp4) = 0 THEN 4
    ELSE IF strcmp(buf, fileStamp3) = 0 THEN 3
    ELSE IF strcmp(buf, fileStamp2) = 0 THEN 2
    ELSE 0

\* the object counts that a file of the version holds, as the project has them
HotCounts(version, nobj, units) ==
    (IF version >= 2 THEN <<nobj.SUBCATCH>> ELSE <<>>)
    \o (IF version >= 3 THEN <<nobj.LANDUSE>> ELSE <<>>)
    \o <<nobj.NODE, nobj.LINK, nobj.POLLUT, units>>

\* lines 176-181: the state was read, the file is closed
HotstartRead1(out, version, rs) ==
    [out EXCEPT !.ret = rs.ErrorCode = 0, !.ErrorCode = rs.ErrorCode,
                !.F = [rs.f EXCEPT !.open = FALSE], !.FileVersion = version,
                !.Subcatch = rs.Subcatch, !.Node = rs.Node, !.Link = rs.Link,
                !.nanAt = rs.nanAt, !.nanBy = rs.nanBy, !.log = rs.log]

\* lines 165-177: the counts c were read from a file of the version
HotstartCounts(out, version, c, nobj, units, x0, xd0) ==
    IF c.vals # HotCounts(version, nobj, units)
    THEN [out EXCEPT !.ret = FALSE, !.ErrorCode = ERR_HOTSTART_FILE_FORMAT,
                     !.F = c.f, !.FileVersion = version]
    ELSE
    LET rs0 == [f |-> c.f, ErrorCode |-> out.ErrorCode,
                Subcatch |-> out.Subcatch, Node |-> out.Node, Link |-> out.Link,
                x |-> x0, xd |-> xd0, xgw |-> <<0, 0, 0, 0>>, d |-> 0, ok |-> TRUE,
                nanAt |-> 0 - 1, nanBy |-> "", log |-> <<>>]
    IN  HotstartRead1(out, version,
                      readRouting(IF version >= 3 THEN readRunoff(rs0, nobj) ELSE rs0,
                                  version, nobj))

\* lines 147-164: the counts of a file of the version, each -1 before it is
\* read
HotstartVersion(out, version, f, nobj, units, x0, xd0) ==
    HotstartCounts(out, version,
                   freadInts(f, [j \in 1..Len(HotCounts(version, nobj, units)) |-> 0 - 1],
                             <<>>),
                   nobj, units, x0, xd0)

\* lines 133-141: no stamp of versions 2 to 4; s2 is the stamp read again
HotstartStamp1(out, s2, nobj, units, x0, xd0) ==
    IF strcmp(s2.buf, fileStamp) # 0
    THEN [out EXCEPT !.ret = FALSE, !.ErrorCode = ERR_HOTSTART_FILE_FORMAT,
                     !.F = s2.f]
    ELSE HotstartVersion(out, 1, s2.f, nobj, units, x0, xd0)

\* lines 129-132: s1 is the stamp read as 15 characters
HotstartStamp(out, s1, nobj, units, x0, xd0) ==
    IF HotVersion(s1.buf) # 0
    THEN HotstartVersion(out, HotVersion(s1.buf), s1.f, nobj, units, x0, xd0)
    ELSE HotstartStamp1(out, freadChars(rewind(s1.f), fileStamp, strlen(fileStamp)),
                        nobj, units, x0, xd0)

\* openHotstartFile1 (hotstart.c 100-182); x0 and xd0 are what the locals x of
\* readRouting and readRunoff hold before anything is read into them
openHotstartFile1(F1, err, version0, nobj, units, S, N, L, x0, xd0) ==
    LET out == [ret |-> TRUE, ErrorCode |-> err, F |-> F1, FileVersion |-> version0,
                Subcatch |-> S, Node |-> N, Link |-> L,
                nanAt |-> 0 - 1, nanBy |-> "", log |-> <<>>]
        f0 == [F1 EXCEPT !.file = "FILE", !.open = TRUE, !.pos = 0, !.eof = FALSE]
    IN
    IF F1.mode # "USE_FILE" THEN out
    ELSE IF ~F1.exists
    THEN [out EXCEPT !.ret = FALSE, !.ErrorCode = ERR_HOTSTART_FILE_OPEN]
    ELSE HotstartStamp(out, freadChars(f0, fStampx, strlen(fileStamp2)),
                       nobj, units, x0, xd0)

hotVars == <<Fhotstart1, Fhotstart2, FileVersion>>
runoffFileVars == <<Frunoff, RunoffShared>>

\* the value of the local float x of readRouting before its first read
UninitFloats == {FloatBytes(0), FloatNaN}

\* hotstart_open (hotstart.c 69-84)
hotstart_open ==
    /\ hot.open = "idle"
    /\ \E x0 \in UninitFloats :
       \E r1 \in {openHotstartFile1(Fhotstart1, ErrorCode, FileVersion, Nobjects,
                                     FlowUnits, Subcatch, Node, Link,
                                     x0, [j \in 1..6 |-> 0])} :
       \E r2 \in {openHotstartFile2(Fhotstart2, r1.ErrorCode, Nobjects, FlowUnits)} :
             /\ Fhotstart1' = r1.F
             /\ FileVersion' = r1.FileVersion
             /\ Subcatch' = r1.Subcatch
             /\ Node' = r1.Node
             /\ Link' = r1.Link
             /\ IF r1.ret
                THEN /\ Fhotstart2' = r2.F
                     /\ ErrorCode' = r2.ErrorCode
                ELSE /\ Fhotstart2' = Fhotstart2
                     /\ ErrorCode' = r1.ErrorCode
             /\ hot' = [hot EXCEPT !.open = IF r1.ret /\ r2.ret THEN "TRUE" ELSE "FALSE",
                                   !.entry = ErrorCode,
                                   !.exit = IF r1.ret THEN r2.ErrorCode
                                            ELSE r1.ErrorCode,
                                   !.nanAt = r1.nanAt, !.nanBy = r1.nanBy,
                                   !.log = r1.log]
    /\ UNCHANGED <<outVars, routeVars, Nobjects, FlowUnits, runoffFileVars, runoffVars>>

\* hotstart_close (hotstart.c 88-96): saveRunoff, saveRouting and fclose
hotstart_close ==
    /\ hot.open # "idle"
    /\ hot.close = "idle"
    /\ IF Fhotstart2.file # "NULL"
       THEN Fhotstart2' =
              [fwrite(fwrite(Fhotstart2,
                             Concat(saveRunoff(Subcatch, Nobjects.POLLUT,
                                               Nobjects.LANDUSE))),
                      Concat(saveRouting(Node, Link, Nobjects.POLLUT)))
                 EXCEPT !.open = FALSE]
       ELSE Fhotstart2' = Fhotstart2
    /\ hot' = [hot EXCEPT !.close = "done"]
    /\ UNCHANGED <<outVars, ErrorCode, Node, Link, routeVars, projVars, Fhotstart1,
                   FileVersion, runoffFileVars, runoffVars>>

-----------------------------------------------------------------------------
(* runoff.c: opening and closing the runoff module and its interface file. *)

\* "SWMM5-RUNOFF" with its closing NUL
runoffStamp == <<83, 87, 77, 77, 53, 45, 82, 85, 78, 79, 70, 70, 0>>

\* runoff_initFile (runoff.c 322-372) on the stream just opened
\* lines 361-371: the counts c were read from the file
runoff_initCounts(c, err, R, nobj, units) ==
    [F |-> c.f,
     ErrorCode |-> IF \/ SubSeq(c.vals, 1, 3) # <<nobj.SUBCATCH, nobj.POLLUT, units>>
                      \/ c.vals[4] <= 0
                   THEN ERR_RUNOFF_FILE_FORMAT ELSE err,
     R |-> [R EXCEPT !.MaxSteps = c.vals[4]]]

\* lines 352-364: s is the stamp read from the file
runoff_initStamp(s, err, R, nobj, units) ==
    IF strcmp(s.buf, runoffStamp) # 0
    THEN [F |-> s.f, ErrorCode |-> ERR_RUNOFF_FILE_FORMAT, R |-> R]
    ELSE runoff_initCounts(freadInts(s.f, <<0 - 1, 0 - 1, 0 - 1, 0>>, <<>>),
                           err, R, nobj, units)

runoff_initFile(F, err, R, nobj, units) ==
    IF F.mode = "SAVE_FILE"
    THEN LET head == StampChars(runoffStamp) \o IntBytes(nobj.SUBCATCH)
                     \o IntBytes(nobj.POLLUT) \o IntBytes(units)
         IN  [F |-> fwrite([F EXCEPT !.pos = 0], head \o IntBytes(0)),
              ErrorCode |-> err,
              R |-> [R EXCEPT !.MaxSteps = 0, !.MaxStepsPos = Len(head)]]
    ELSE runoff_initStamp(freadChars(F, runoffStamp, strlen(runoffStamp)), err,
                          [R EXCEPT !.MaxSteps = 0], nobj, units)

\* runoff_open (runoff.c 84-97): the interface file is opened
runoff_openFile(F, err, R, nobj, units) ==
    IF F.mode \in {"USE_FILE", "SAVE_FILE"}
    THEN IF ~F.exists
         THEN [F |-> F, ErrorCode |-> ERR_RUNOFF_FILE_OPEN, R |-> R]
         ELSE runoff_initFile([F EXCEPT !.file = "FILE", !.open = TRUE, !.pos = 0,
                                        !.eof = FALSE,
                                        !.data = IF F.mode = "SAVE_FILE"
                                                 THEN <<>> ELSE F.data],
                              err, R, nobj, units)
    ELSE [F |-> F, ErrorCode |-> err, R |-> R]

\* runoff_open (runoff.c 58-101); odeOk and memOk are the outcomes of
\* odesolve_open and calloc
runoff_openFrom(F, err, R, nobj, units, odeOk, memOk) ==
    runoff_openFile(F,
                    IF nobj.POLLUT > 0 /\ ~memOk THEN ERR_MEMORY
                    ELSE IF ~odeOk THEN ERR_ODE_SOLVER ELSE err,
                    [R EXCEPT !.IsRaining = FALSE, !.HasRunoff = FALSE,
                              !.HasSnow = FALSE, !.Nsteps = 0, !.odeOpen = odeOk,
                              !.OutflowLoad = IF nobj.POLLUT > 0 /\ memOk
                                              THEN "ALLOC" ELSE "NULL"],
                    nobj, units)

runoff_open ==
    /\ hot.ropen = "idle"
    /\ \E odeOk \in BOOLEAN, memOk \in BOOLEAN :
       \E r \in {runoff_openFrom(Frunoff, ErrorCode, RunoffShared, Nobjects,
                                 FlowUnits, odeOk, memOk)} :
         /\ Frunoff' = r.F
         /\ RunoffShared' = r.R
         /\ ErrorCode' = r.ErrorCode
         /\ hot' = [hot EXCEPT !.ropen = "done"]
    /\ UNCHANGED <<outVars, Node, Link, routeVars, projVars, hotVars, runoffVars>>

\* fseek(f, pos, SEEK_SET) and fwrite(&n, sizeof(int), 1, f)
fwriteIntAt(F, pos, n) ==
    [F EXCEPT !.data = SubSeq(F.data, 1, pos) \o IntBytes(n)
                       \o SubSeq(F.data, pos + 5, Len(F.data)),
              !.pos = pos + 4, !.eof = FALSE]

\* runoff_close (runoff.c 105-134); the climate file is opened and closed
\* elsewhere and is not part of the model
runoff_close ==
    /\ hot.ropen # "idle"
    /\ hot.rclose = "idle"
    /\ RunoffShared' = [RunoffShared EXCEPT !.odeOpen = FALSE, !.OutflowLoad = "NULL"]
    /\ IF Frunoff.file # "NULL"
       THEN LET F == IF Frunoff.mode = "SAVE_FILE"
                     THEN fwriteIntAt(Frunoff, RunoffShared.MaxStepsPos,
                                      RunoffShared.Nsteps)
                     ELSE Frunoff
            IN  Frunoff' = [F EXCEPT !.open = FALSE]
       ELSE Frunoff' = Frunoff
    /\ hot' = [hot EXCEPT !.rclose = "done"]
    /\ UNCHANGED <<outVars, ErrorCode, Node, Link, routeVars, projVars, hotVars,
                   runoffVars>>

-----------------------------------------------------------------------------
(* subcatch.c: the runoff of one subcatchment over one time step.  Rates   *)
(* are in units of 0.0001 ft/sec, depths in 0.0001 ft, fractions in        *)
(* 0.0001, flows in 0.0001 cfs, volumes in 0.0001 ft3, areas in ft2 and    *)
(* times in whole sec; a flow is a rate times an area and a volume a flow  *)
(* times a time.  An index is 0 where the code has -1.                     *)

IMPERV0 == 1      \* the impervious sub-area without depression storage
IMPERV1 == 2      \* the impervious sub-area with depression storage
PERV == 3         \* the pervious sub-area

\* the fraction f of a, and the volume that rate gives on area over tStep
Frac(a, f) == XDiv(XMul(a, f), UNIT)
Vol(rate, area, tStep) == XMul(XMul(rate, area), tStep)

\* x * LperFT3, the litres in x cubic feet (consts.h: 28.317)
LperFT3(x) == XDiv(XMul(x, 28317), 1000)

\* the conversion factors UCF() of the project's units (project.c)
UCF(quantity) == 1

\* MIN_RUNOFF (consts.h) is 2.31481e-8 ft/sec, less than one unit of the
\* model and more than none: x < MIN_RUNOFF * area and x <= MIN_RUNOFF
BelowMinRunoff(x, area) == IF area > 0 THEN XLe(x, 0) ELSE XLt(x, 0)
WithinMinRunoff(x) == XLe(x, 0)

\* pow(x, MEXP) for x >= 0 (subcatch.c 53: MEXP = 5/3), as x times the cube
\* root of x squared; Cbrt(n, lo, hi) is the largest c in lo..hi with c^3 <= n
RECURSIVE Cbrt(_, _, _)
Cbrt(n, lo, hi) ==
    IF lo >= hi THEN lo
    ELSE IF ((lo + hi + 1) \div 2) * ((lo + hi + 1) \div 2) * ((lo + hi + 1) \div 2) <= n
    THEN Cbrt(n, (lo + hi + 1) \div 2, hi)
    ELSE Cbrt(n, lo, (lo + hi + 1) \div 2 - 1)

pow_MEXP(x) ==
    IF x = NAN \/ x < 0 THEN NAN
    ELSE IF x = INF THEN INF
    ELSE (x * Cbrt(x * x, 0, 1200)) \div 464

\* the parts of the LID module (lid.c) that the runoff calculation reads: the
\* LID units of the model hold no water and pass none on
lid_getFlowToPerv(s) == 0
lid_getDrainFlow(s) == 0

\* subcatch_setOldState without the reset of the sub-area inflows
subcatch_setOldState_KeepInflow(s) ==
    [s EXCEPT !.oldRunoff = s.newRunoff,
              !.oldSnowDepth = s.newSnowDepth,
              !.oldQual = s.newQual,
              !.newQual = Zeros(Len(s.newQual))]

\* subcatch_setOldState (subcatch.c 435-455)
subcatch_setOldState(s) ==
    [s EXCEPT !.oldRunoff = s.newRunoff,
              !.oldSnowDepth = s.newSnowDepth,
              !.subArea = [i \in 1..3 |-> [s.subArea[i] EXCEPT !.inflow = 0]],
              !.oldQual = s.newQual,
              !.newQual = Zeros(Len(s.newQual))]

\* subcatch_addRunonFlow (subcatch.c 582-607): the flow q (cfs) becomes the
\* rate r over the non-LID area of subcatchment k
addRunonRate(S, k, r) ==
    [S EXCEPT ![k].runon = XAdd(@, r),
              ![k].subArea = [i \in 1..3 |->
                                [S[k].subArea[i] EXCEPT !.inflow = XAdd(@, r)]]]

\* subcatch_addRunonFlow without the test of the area in line 596
subcatch_addRunonFlow_NoAreaTest(S, k, q) ==
    IF S[k].area - S[k].lidArea > 0
    THEN addRunonRate(S, k, XDiv(q, S[k].area - S[k].lidArea))
    ELSE addRunonRate(S, k, XDiv(q, S[k].area))

subcatch_addRunonFlow(S, k, q) ==
    IF S[k].area <= 0 THEN S
    ELSE IF S[k].area - S[k].lidArea > 0
    THEN addRunonRate(S, k, XDiv(q, S[k].area - S[k].lidArea))
    ELSE addRunonRate(S, k, XDiv(q, S[k].area))

\* subcatch_getWtdOutflow (subcatch.c 825-835)
subcatch_getWtdOutflow(s, f) ==
    IF s.area = 0 THEN 0 ELSE XAdd(Frac(s.oldRunoff, UNIT - f), Frac(s.newRunoff, f))

\* subcatch_getRunon (subcatch.c 519-529): the runoff of the previous step
\* goes to the outlet subcatchment
getRunonOutlet(S, j, k, q, nPollut) ==
    IF k > 0 /\ k # j
    THEN [subcatch_addRunonFlow(S, k, q) EXCEPT ![k].newQual =
            [p \in 1..nPollut |->
               XAdd(S[k].newQual[p], LperFT3(Frac(q, S[j].oldQual[p])))]]
    ELSE S

\* subcatch_getRunon (subcatch.c 539-552), case 1: imperv --> perv
getRunonToPerv(S, j) ==
    IF S[j].fracImperv < UNIT /\ S[j].subArea[IMPERV0].routeTo = "TO_PERV"
    THEN [S EXCEPT ![j].subArea[PERV].inflow =
            XAdd(@, XDiv(XMul(XAdd(Frac(S[j].subArea[IMPERV0].runoff,
                                        S[j].subArea[IMPERV0].fArea),
                                   Frac(S[j].subArea[IMPERV1].runoff,
                                        S[j].subArea[IMPERV1].fArea)),
                              UNIT - S[j].subArea[IMPERV0].fOutlet),
                         S[j].subArea[PERV].fArea))]
    ELSE S

\* subcatch_getRunon (subcatch.c 554-564), case 2: perv --> imperv
getRunonToImperv(S, j) ==
    IF /\ S[j].fracImperv > 0
       /\ S[j].subArea[PERV].routeTo = "TO_IMPERV"
       /\ S[j].subArea[IMPERV1].fArea > 0
    THEN [S EXCEPT ![j].subArea[IMPERV1].inflow =
            XAdd(@, XDiv(XMul(Frac(S[j].subArea[PERV].runoff,
                                   UNIT - S[j].subArea[PERV].fOutlet),
                              S[j].subArea[PERV].fArea),
                         S[j].subArea[IMPERV1].fArea))]
    ELSE S

\* subcatch_getRunon (subcatch.c 566-576): the return flow of the LID units
getRunonFromLid(S, j) ==
    IF /\ S[j].lidArea > 0 /\ S[j].fracImperv < UNIT
       /\ Frac(S[j].area - S[j].lidArea, S[j].subArea[PERV].fArea) > 0
    THEN [S EXCEPT ![j].subArea[PERV].inflow =
            XAdd(@, XDiv(lid_getFlowToPerv(S[j]),
                         Frac(S[j].area - S[j].lidArea, S[j].subArea[PERV].fArea)))]
    ELSE S

\* subcatch_getRunon (subcatch.c 503-576); lid_addDrainRunon (lid.c) adds
\* nothing
subcatch_getRunon(S, j, nPollut) ==
    getRunonFromLid(
        getRunonToImperv(
            getRunonToPerv(
                getRunonOutlet(S, j, S[j].outSubcatch, S[j].oldRunoff, nPollut),
                j),
            j),
        j)

\* snow_getSnowMelt (snow.c): the snow that falls stays on the pack and the
\* rain passes through it
snow_getSnowMelt(s, rainfall, snowfall, tStep) ==
    [newSnowDepth |-> XAdd(s.newSnowDepth, XMul(snowfall, tStep)),
     netPrecip |-> [i \in 1..3 |-> rainfall]]

\* getNetPrecip (subcatch.c 740-776) with the rainfall and snowfall that
\* gage_getPrecip hands over
netPrecipOf(s, rainfall, snowfall, IgnoreSnowmelt, tStep) ==
    IF s.snowpack /\ ~IgnoreSnowmelt
    THEN [s |-> [s EXCEPT !.rainfall = XAdd(rainfall, snowfall),
                          !.newSnowDepth =
                              snow_getSnowMelt(s, rainfall, snowfall, tStep).newSnowDepth],
          netPrecip |-> snow_getSnowMelt(s, rainfall, snowfall, tStep).netPrecip]
    ELSE [s |-> [s EXCEPT !.rainfall = XAdd(rainfall, snowfall)],
          netPrecip |-> [i \in 1..3 |-> XAdd(rainfall, snowfall)]]

getNetPrecip(s, G, IgnoreSnowmelt, tStep) ==
    IF s.gage > 0
    THEN netPrecipOf(s, G[s.gage].rainfall, G[s.gage].snowfall, IgnoreSnowmelt, tStep)
    ELSE netPrecipOf(s, 0, 0, IgnoreSnowmelt, tStep)

\* infil_getInfil (infil.c): the soil takes water at its capacity
infil_getInfil(s, tStep, precip, inflow, depth) == s.infilCap

\* getSubareaInfil (subcatch.c 992-1016)
getSubareaInfil(s, sa, precip, tStep, IgnoreGwater) ==
    IF ~IgnoreGwater /\ s.groundwater
    THEN MIN(infil_getInfil(s, tStep, precip, sa.inflow, sa.depth),
             XDiv(s.gwater.maxInfilVol, tStep))
    ELSE infil_getInfil(s, tStep, precip, sa.inflow, sa.depth)

\* getDdDt (subcatch.c 1112-1134): the rate of change of the depth d
getDdDt(sa, d) ==
    XSub(sa.inflow,
         IF XLt(XSub(d, sa.dStore), 0) THEN 0
         ELSE Frac(pow_MEXP(XSub(d, sa.dStore)), sa.alpha))

\* odesolve_integrate (odesolve.c) with getDdDt over tx seconds, as Euler
\* steps of one second
RECURSIVE odesolve_integrate(_, _, _)
odesolve_integrate(sa, d, tx) ==
    IF tx <= 0 \/ d = NAN THEN d
    ELSE odesolve_integrate(sa, XAdd(d, getDdDt(sa, d)), tx - 1)

\* updatePondedDepth (subcatch.c 1101-1107): the depth is not negative and
\* tx is handed back
pondedDepth(sa, depth, tx) ==
    [sa |-> [sa EXCEPT !.depth = IF XLt(depth, 0) THEN 0 ELSE depth], tx |-> tx]

\* updatePondedDepth (subcatch.c 1080-1086): the depression storage fills
fillStore(sa, dt) ==
    IF XLt(0, XSub(sa.dStore, sa.depth)) /\ XLt(0, sa.inflow)
    THEN [depth |-> sa.dStore,
          tx |-> XSub(dt, XDiv(XSub(sa.dStore, sa.depth), sa.inflow))]
    ELSE [depth |-> sa.depth, tx |-> dt]

\* updatePondedDepth (subcatch.c 1088-1099): from depth c.depth over c.tx
integrateDepth(sa, c) ==
    IF sa.alpha > 0 /\ XLt(0, c.tx)
    THEN pondedDepth(sa, odesolve_integrate(sa, c.depth, c.tx), c.tx)
    ELSE IF XLt(c.tx, 0)
    THEN pondedDepth(sa, XAdd(c.depth, XMul(sa.inflow, 0)), 0)
    ELSE pondedDepth(sa, XAdd(c.depth, XMul(sa.inflow, c.tx)), c.tx)

\* updatePondedDepth that hands back the whole step as the time of runoff
updatePondedDepth_FullStep(sa, dt) ==
    IF XLe(XAdd(sa.depth, XMul(sa.inflow, dt)), sa.dStore)
    THEN pondedDepth(sa, XAdd(sa.depth, XMul(sa.inflow, dt)), dt)
    ELSE [sa |-> integrateDepth(sa, fillStore(sa, dt)).sa, tx |-> dt]

\* updatePondedDepth (subcatch.c 1057-1108): the new depth and the time tx
\* over which the depth is above the depression storage
updatePondedDepth(sa, dt) ==
    IF XLe(XAdd(sa.depth, XMul(sa.inflow, dt)), sa.dStore)
    THEN pondedDepth(sa, XAdd(sa.depth, XMul(sa.inflow, dt)), dt)
    ELSE integrateDepth(sa, fillStore(sa, dt))

\* findSubareaRunoff (subcatch.c 1022-1053)
findSubareaRunoff(sa, tRunoff) ==
    IF XLt(0, XSub(sa.depth, sa.dStore))
    THEN IF sa.N > 0
         THEN [sa |-> sa,
               runoff |-> Frac(pow_MEXP(XSub(sa.depth, sa.dStore)), sa.alpha)]
         ELSE [sa |-> [sa EXCEPT !.depth = sa.dStore],
               runoff |-> XDiv(XSub(sa.depth, sa.dStore), tRunoff)]
    ELSE [sa |-> sa, runoff |-> 0]

\* getSubareaRunoff (subcatch.c 980-987): the runoff f of the sub-area
subareaOutflow(f, area, tStep, V) ==
    [sa |-> [f.sa EXCEPT !.runoff = f.runoff], runoff |-> f.runoff,
     V |-> [V EXCEPT !.Voutflow =
              XAdd(@, Vol(Frac(f.runoff, f.sa.fOutlet), area, tStep))]]

\* getSubareaRunoff (subcatch.c 977-978): p is the ponded sub-area; V.ponded
\* records each call of findSubareaRunoff: the depth d0 before the step, the
\* sub-area and the time tRunoff it is called with, and the depth and the
\* runoff it leaves
subareaPonded(p, d0, area, tStep, V) ==
    subareaOutflow(findSubareaRunoff(p.sa, p.tx), area, tStep,
                   [V EXCEPT !.ponded =
                      Append(@, [d0 |-> d0, ix |-> p.sa.inflow,
                                 D |-> p.sa.depth, tRunoff |-> p.tx, tStep |-> tStep,
                                 N |-> p.sa.N, alpha |-> p.sa.alpha,
                                 dStore |-> p.sa.dStore,
                                 depth |-> findSubareaRunoff(p.sa, p.tx).sa.depth,
                                 runoff |-> findSubareaRunoff(p.sa, p.tx).runoff])])

\* the losses taken from the ponded water where they exceed the moisture
subareaLosses_TakenFromDepth(sa, i, area, precip, surfEvap, infil, tStep, V) ==
    subareaPonded(
        IF XLe(XAdd(XDiv(sa.depth, tStep), XAdd(sa.inflow, precip)),
               XAdd(surfEvap, infil))
        THEN [sa |-> [sa EXCEPT !.inflow = XAdd(sa.inflow, precip),
                                !.depth = XAdd(sa.depth,
                                               XMul(XSub(XAdd(sa.inflow, precip),
                                                         XAdd(surfEvap, infil)),
                                                    tStep))],
              tx |-> tStep]
        ELSE updatePondedDepth(
                 [sa EXCEPT !.inflow = XSub(XAdd(sa.inflow, precip),
                                            XAdd(surfEvap, infil))],
                 tStep),
        sa.depth, area, tStep,
        [V EXCEPT !.Vinflow = XAdd(@, Vol(precip, area, tStep)),
                  !.Vevap = XAdd(@, Vol(surfEvap, area, tStep)),
                  !.Vpevap = IF i = PERV
                             THEN XAdd(@, XAdd(V.Vevap, Vol(surfEvap, area, tStep)))
                             ELSE @,
                  !.Vinfil = XAdd(@, Vol(infil, area, tStep))])

\* getSubareaRunoff (subcatch.c 950-975): sub-area sa with the losses
\* surfEvap and infil
subareaLosses(sa, i, area, precip, surfEvap, infil, tStep, V) ==
    subareaPonded(
        IF XLe(XAdd(XDiv(sa.depth, tStep), XAdd(sa.inflow, precip)),
               XAdd(surfEvap, infil))
        THEN [sa |-> [sa EXCEPT !.inflow = XAdd(sa.inflow, precip), !.depth = 0],
              tx |-> tStep]
        ELSE updatePondedDepth(
                 [sa EXCEPT !.inflow = XSub(XAdd(sa.inflow, precip),
                                            XAdd(surfEvap, infil))],
                 tStep),
        sa.depth, area, tStep,
        [V EXCEPT !.Vinflow = XAdd(@, Vol(precip, area, tStep)),
                  !.Vevap = XAdd(@, Vol(surfEvap, area, tStep)),
                  !.Vpevap = IF i = PERV
                             THEN XAdd(@, XAdd(V.Vevap, Vol(surfEvap, area, tStep)))
                             ELSE @,
                  !.Vinfil = XAdd(@, Vol(infil, area, tStep))])

\* getSubareaRunoff (subcatch.c 917-988) for sub-area i of subcatchment s;
\* V holds the volumes of sp->SubcatchShared
getSubareaRunoff(s, i, area, precip, evap, tStep, V, IgnoreGwater) ==
    IF area = 0 THEN [sa |-> s.subArea[i], runoff |-> 0, V |-> V]
    ELSE subareaLosses(s.subArea[i], i, area, precip,
                       MIN(XDiv(s.subArea[i].depth, tStep), evap),
                       IF i = PERV
                       THEN getSubareaInfil(s, s.subArea[i], precip, tStep, IgnoreGwater)
                       ELSE 0,
                       tStep, V)

\* subcatch_getDepth (subcatch.c 803-821)
depthOver(sa) == IF sa.fArea > 0 THEN Frac(sa.depth, sa.fArea) ELSE 0

subcatch_getDepth(s) ==
    XAdd(XAdd(depthOver(s.subArea[IMPERV0]), depthOver(s.subArea[IMPERV1])),
         depthOver(s.subArea[PERV]))

\* the loop over the sub-areas in subcatch_getRunoff (subcatch.c 673-679);
\* r is what getSubareaRunoff found for sub-area i
RECURSIVE SubareaLoop(_, _, _, _, _, _, _, _, _)
subareaDone(s, i, area, r, nonLidArea, netPrecip, evapRate, tStep, runoff, IgnoreGwater) ==
    SubareaLoop([s EXCEPT !.subArea[i] = [r.sa EXCEPT !.runoff = r.runoff]],
                i + 1, nonLidArea, netPrecip, evapRate, tStep, r.V,
                XAdd(runoff, XMul(r.runoff, area)), IgnoreGwater)

subareaOf(s, i, area, nonLidArea, netPrecip, evapRate, tStep, V, runoff, IgnoreGwater) ==
    subareaDone(s, i, area,
                getSubareaRunoff(s, i, area, netPrecip[i], evapRate, tStep, V,
                                 IgnoreGwater),
                nonLidArea, netPrecip, evapRate, tStep, runoff, IgnoreGwater)

SubareaLoop(s, i, nonLidArea, netPrecip, evapRate, tStep, V, runoff, IgnoreGwater) ==
    IF i > PERV THEN [s |-> s, V |-> V, runoff |-> runoff]
    ELSE subareaOf(s, i, Frac(nonLidArea, s.subArea[i].fArea), nonLidArea,
                   netPrecip, evapRate, tStep, V, runoff, IgnoreGwater)

\* subcatch_getRunoff (subcatch.c 689-735): r holds the subcatchment, the
\* volumes and the runoff after the sub-areas; lid_getRunoff and
\* gwater_getGroundwater (lid.c, gwater.c) leave the volumes as they are
runoffTotals(s, j, tStep, vRunon, r) ==
    [s |-> [r.s EXCEPT
              !.evapLoss = XDiv(XDiv(r.V.Vevap, tStep), s.area),
              !.infilLoss = XDiv(XDiv(XAdd(r.V.Vinfil, r.V.VlidInfil), tStep), s.area),
              !.newRunoff =
                  XDiv(XAdd(XSub(r.V.Voutflow, r.V.VlidIn), r.V.VlidOut), tStep)],
     runoff |-> XDiv(r.runoff, s.area),
     vRain |-> Vol(r.s.rainfall, tStep, s.area),
     vRunon |-> vRunon, tStep |-> tStep, ponded |-> r.V.ponded,
     Vevap |-> r.V.Vevap,
     Vinfil |-> XAdd(r.V.Vinfil, r.V.VlidInfil),
     vOutflow |-> IF s.outNode = 0 /\ s.outSubcatch # j THEN 0
                  ELSE XAdd(XSub(r.V.Voutflow, r.V.VlidIn), r.V.VlidOut)]

\* subcatch_getRunoff (subcatch.c 660-679): np is what getNetPrecip found
runoffOfPrecip(s, j, opt, tStep, V0, vRunon, np) ==
    runoffTotals(s, j, tStep, vRunon,
                 IF s.area - s.lidArea > 0
                 THEN SubareaLoop(np.s, IMPERV0, s.area - s.lidArea, np.netPrecip,
                                  IF opt.Evap.dryOnly /\ XLt(0, np.s.rainfall)
                                  THEN 0 ELSE opt.Evap.rate,
                                  tStep, V0, 0, opt.IgnoreGwater)
                 ELSE [s |-> np.s, V |-> V0, runoff |-> 0])

\* subcatch_getRunoff (subcatch.c 613-736) for subcatchment j with record s:
\* the new record, the runoff rate it returns and the volumes it hands to
\* stats_updateSubcatchStats and massbal_updateRunoffTotals
subcatch_getRunoff(s, j, G, opt, tStep) ==
    runoffOfPrecip(s, j, opt, tStep,
                   [Vevap |-> 0, Vpevap |-> 0, Vinfil |-> 0, Voutflow |-> 0,
                    VlidIn |-> 0, VlidInfil |-> 0, VlidOut |-> 0, VlidDrain |-> 0,
                    VlidReturn |-> 0, ponded |-> <<>>,
                    Vinflow |-> XAdd(Vol(s.runon, tStep, s.area - s.lidArea),
                                     XMul(subcatch_getDepth(s), s.area - s.lidArea))],
                   IF s.area - s.lidArea = 0 THEN Vol(s.runon, tStep, s.area)
                   ELSE Vol(s.runon, tStep, s.area - s.lidArea),
                   getNetPrecip(s, G, opt.IgnoreSnowmelt, tStep))

\* the weighted combination f1 * old + f * new of subcatch_getResults
wtd(f, old, new) == XAdd(Frac(old, UNIT - f), Frac(new, f))

\* subcatch_getResults (subcatch.c 866-881): the reported runoff
reportedRunoff(s, f) ==
    IF BelowMinRunoff(XAdd(wtd(f, s.oldRunoff, s.newRunoff),
                           IF s.lidArea > 0
                           THEN wtd(f, lid_getDrainFlow(s), lid_getDrainFlow(s))
                           ELSE 0),
                      s.area)
    THEN 0
    ELSE XAdd(wtd(f, s.oldRunoff, s.newRunoff),
              IF s.lidArea > 0
              THEN wtd(f, lid_getDrainFlow(s), lid_getDrainFlow(s)) ELSE 0)

\* subcatch_getResults (subcatch.c 839-908) with weight f into the buffer x
subcatch_getResults(s, G, f, x, IgnoreQuality) ==
    [k \in 1..Len(x) |->
       CASE k = 1 -> IF s.gage > 0 THEN G[s.gage].reportRainfall ELSE 0
         [] k = 2 -> XMul(wtd(f, s.oldSnowDepth, s.newSnowDepth), UCF("RAINDEPTH"))
         [] k = 3 -> XMul(s.evapLoss, UCF("EVAPRATE"))
         [] k = 4 -> XMul(s.infilLoss, UCF("RAINFALL"))
         [] k = 5 -> XMul(reportedRunoff(s, f), UCF("FLOW"))
         [] k = 6 -> IF s.groundwater
                     THEN XMul(XMul(wtd(f, s.gwater.oldFlow, s.gwater.newFlow), s.area),
                               UCF("FLOW"))
                     ELSE 0
         [] k = 7 -> IF s.groundwater
                     THEN XMul(XAdd(s.gwater.bottomElev, s.gwater.lowerDepth),
                               UCF("LENGTH"))
                     ELSE 0
         [] k = 8 -> IF s.groundwater THEN s.gwater.theta ELSE 0
         [] OTHER -> IF IgnoreQuality \/ k - 8 > Len(s.newQual) THEN x[k]
                     ELSE IF reportedRunoff(s, f) = 0 THEN 0
                     ELSE wtd(f, s.oldQual[k - 8], s.newQual[k - 8])]

-----------------------------------------------------------------------------
(* runoff.c: one call of runoff_execute.  The state st of a call holds the *)
(* error code, the subcatchments, gages and outfalls, sp->RunoffShared as  *)
(* R, the interface file F, the clocks Old and New (msec), the buffer x    *)
(* (sp->OutputExport.SubcatchResults) and the record tick of what the call *)
(* did.  The current date t is in sec since the start of the simulation.   *)

\* gage_setState, gage_getNextRainDate (gage.c): the gage has a series of
\* rainfall rates, one per interval
gageRate(g, t) ==
    IF t \div g.interval + 1 <= Len(g.series) THEN g.series[t \div g.interval + 1]
    ELSE 0

gage_setState(g, t) ==
    [g EXCEPT !.rainfall = gageRate(g, t), !.snowfall = 0,
              !.reportRainfall = gageRate(g, t)]

gage_getNextRainDate(g, t) ==
    IF t \div g.interval + 1 <= Len(g.series) THEN (t \div g.interval + 1) * g.interval
    ELSE t

\* climate_getNextEvapDate (climate.c), datetime_dayOfYear (datetime.c)
climate_getNextEvapDate(opt, t) == opt.NextEvapDate
datetime_dayOfYear(opt, t) == opt.StartDay + t \div 86400

\* runoff_getTimeStep (runoff.c 293, 298): a positive time to the next
\* change that is shorter than maxStep replaces it
stepLimit(timeStep, maxStep) ==
    IF timeStep > 0 /\ timeStep < maxStep THEN timeStep ELSE maxStep

\* runoff_getTimeStep (runoff.c 294-299): the loop over the gages
RECURSIVE gageSteps(_, _, _, _)
gageSteps(G, j, t, maxStep) ==
    IF j > Len(G) THEN maxStep
    ELSE gageSteps(G, j + 1, t, stepLimit(gage_getNextRainDate(G[j], t) - t, maxStep))

\* runoff_getTimeStep (runoff.c 313): the step is limited by maxStep
limitStep(timeStep, maxStep) == IF timeStep > maxStep THEN maxStep ELSE timeStep

\* the step with maxStep starting from the wet or dry step that applies
runoff_getTimeStep_FromBase(opt, R, G, t) ==
    gageSteps(G, 1, t,
              stepLimit(climate_getNextEvapDate(opt, t) - t,
                        IF R.IsRaining \/ R.HasSnow \/ R.HasRunoff \/ R.HasWetLids
                        THEN opt.WetStep ELSE opt.DryStep))

\* runoff_getTimeStep (runoff.c 279-315)
runoff_getTimeStep(opt, R, G, t) ==
    limitStep(IF R.IsRaining \/ R.HasSnow \/ R.HasRunoff \/ R.HasWetLids
              THEN opt.WetStep ELSE opt.DryStep,
              gageSteps(G, 1, t,
                        stepLimit(climate_getNextEvapDate(opt, t) - t, opt.DryStep)))

\* runoff_getOutfallRunon (runoff.c 484-520); acc holds the subcatchments,
\* the outfalls and the volumes handed to massbal_updateRunoffTotals
RECURSIVE runoff_getOutfallRunon(_, _, _, _)
\* the hand-over of an outfall that keeps its routed volume and loads
outfallRunon_KeepRouted(acc, i, k, tStep, nPollut) ==
    [acc EXCEPT
       !.Subcatch =
           [subcatch_addRunonFlow(acc.Subcatch, k, XDiv(acc.Outfall[i].vRouted, tStep))
              EXCEPT ![k].newQual =
                 [p \in 1..nPollut |->
                    XAdd(acc.Subcatch[k].newQual[p],
                         XDiv(LperFT3(acc.Outfall[i].wRouted[p]), tStep))]],
       !.totals.RUNON = XAdd(@, acc.Outfall[i].vRouted),
       !.deposition = @ \o [p \in 1..nPollut |->
                              <<p, LperFT3(acc.Outfall[i].wRouted[p])>>]]

outfallRunon(acc, i, k, tStep, nPollut) ==
    [acc EXCEPT
       !.Subcatch =
           [subcatch_addRunonFlow(acc.Subcatch, k, XDiv(acc.Outfall[i].vRouted, tStep))
              EXCEPT ![k].newQual =
                 [p \in 1..nPollut |->
                    XAdd(acc.Subcatch[k].newQual[p],
                         XDiv(LperFT3(acc.Outfall[i].wRouted[p]), tStep))]],
       !.Outfall[i].vRouted = 0,
       !.Outfall[i].wRouted = Zeros(nPollut),
       !.totals.RUNON = XAdd(@, acc.Outfall[i].vRouted),
       !.deposition = @ \o [p \in 1..nPollut |->
                              <<p, LperFT3(acc.Outfall[i].wRouted[p])>>]]

runoff_getOutfallRunon(acc, i, tStep, nPollut) ==
    IF i > Len(acc.Outfall) THEN acc
    ELSE IF acc.Outfall[i].routeTo = 0
    THEN runoff_getOutfallRunon(acc, i + 1, tStep, nPollut)
    ELSE IF acc.Subcatch[acc.Outfall[i].routeTo].area = 0
    THEN runoff_getOutfallRunon(acc, i + 1, tStep, nPollut)
    ELSE runoff_getOutfallRunon(
             outfallRunon(acc, i, acc.Outfall[i].routeTo, tStep, nPollut),
             i + 1, tStep, nPollut)

\* runoff_execute (runoff.c 224-229): the runon of every subcatchment;
\* snow_plowSnow (snow.c) moves no snow
RECURSIVE runonLoop(_, _, _)
runonLoop(S, j, nPollut) ==
    IF j > Len(S) THEN S
    ELSE IF S[j].area = 0 THEN runonLoop(S, j + 1, nPollut)
    ELSE runonLoop(subcatch_getRunon(S, j, nPollut), j + 1, nPollut)

\* runoff_execute (runoff.c 249-260): the surface quality functions called
\* for a subcatchment with the given runoff and rainfall
surfqualCalls(runoff, rainfall, canSweep) ==
    (IF BelowMinRunoff(runoff, 1) THEN <<"surfqual_getBuildup">> ELSE <<>>)
    \o (IF canSweep /\ WithinMinRunoff(rainfall)
        THEN <<"surfqual_sweepBuildup">> ELSE <<>>)
    \o <<"surfqual_getWashoff">>

\* runoff_execute (runoff.c 240-260): r is what subcatch_getRunoff found for
\* subcatchment j
runoffOf(acc, j, r, opt, canSweep) ==
    [acc EXCEPT
       !.Subcatch[j] = r.s,
       !.HasRunoff = @ \/ XLt(0, r.runoff),
       !.HasSnow = @ \/ XLt(0, r.s.newSnowDepth),
       !.calls = IF opt.IgnoreQuality THEN @
                 ELSE Append(@, <<j, surfqualCalls(r.runoff, r.s.rainfall, canSweep)>>),
       !.vRunon = Append(@, <<j, r.vRunon>>),
       !.steps = Append(@, <<j, r.tStep>>),
                !.ponded = @ \o r.ponded,
       !.totals = [@ EXCEPT !.RAINFALL = XAdd(@, r.vRain),
                            !.EVAP = XAdd(@, r.Vevap),
                            !.INFIL = XAdd(@, r.Vinfil),
                            !.RUNOFF = XAdd(@, r.vOutflow)]]

\* runoff_execute (runoff.c 231-261): the loop over the subcatchments
RECURSIVE runoffLoop(_, _, _, _, _, _)
runoffLoop(acc, j, G, opt, tStep, canSweep) ==
    IF j > Len(acc.Subcatch) THEN acc
    ELSE IF acc.Subcatch[j].area = 0
    THEN runoffLoop(acc, j + 1, G, opt, tStep, canSweep)
    ELSE runoffLoop(runoffOf(acc, j,
                             subcatch_getRunoff(acc.Subcatch[j], j, G, opt, tStep),
                             opt, canSweep),
                    j + 1, G, opt, tStep, canSweep)

\* a float as it lies in the file, and back; the model shows a NaN as NAN
\* and an infinite value as INF
FloatWrite(v) ==
    IF v = NAN THEN FloatNaN
    ELSE IF v = INF THEN <<0, 0, 128, 127>>
    ELSE IF v = 0 - INF THEN <<0, 0, 128, 255>>
    ELSE FloatBytes(v)

FloatRead(b) ==
    IF FloatIsNaN(b) THEN NAN
    ELSE IF FloatExp(b) = 255 THEN (IF b[4] >= 128 THEN 0 - INF ELSE INF)
    ELSE FloatValue(b)

\* the first n floats at the address of the buffer x: beyond the end of the
\* buffer lies a float of value junk
floatsAt(x, n, junk) == [k \in 1..n |-> IF k <= Len(x) THEN x[k] ELSE junk]

\* runoff_saveToFile (runoff.c 392-396): the loop over the subcatchments; x
\* is the buffer after subcatch_getResults
RECURSIVE saveLoop(_, _, _, _, _, _, _)
saveResults(acc, j, x, S, G, n, IgnoreQuality, junk) ==
    saveLoop([F |-> fwrite(acc.F, Concat([k \in 1..n |->
                                           FloatWrite(floatsAt(x, n, junk)[k])])),
              x |-> x, overrun |-> acc.overrun \/ n > Len(x)],
             j + 1, S, G, n, IgnoreQuality, junk)

saveLoop(acc, j, S, G, n, IgnoreQuality, junk) ==
    IF j > Len(S) THEN acc
    ELSE saveResults(acc, j, subcatch_getResults(S[j], G, UNIT, acc.x, IgnoreQuality),
                     S, G, n, IgnoreQuality, junk)

\* runoff_saveToFile (runoff.c 377-397)
runoff_saveToFile(F, x, S, G, tStep, nPollut, IgnoreQuality, junk) ==
    saveLoop([F |-> fwrite(F, FloatWrite(tStep * UNIT)), x |-> x, overrun |-> FALSE],
             1, S, G, 8 + nPollut, IgnoreQuality, junk)

\* fread(x, sizeof(float), n, f): the whole floats that the file still
\* holds, up to n of them, replace the start of the buffer
freadFloats(f, x, n) ==
    [n |-> MIN(n, (Len(f.data) - f.pos) \div 4),
     x |-> [k \in 1..MAX(Len(x), MIN(n, (Len(f.data) - f.pos) \div 4)) |->
              IF k <= MIN(n, (Len(f.data) - f.pos) \div 4)
              THEN FloatRead(SubSeq(f.data, f.pos + 4 * k - 3, f.pos + 4 * k))
              ELSE x[k]],
     f |-> IF (Len(f.data) - f.pos) \div 4 >= n
           THEN [f EXCEPT !.pos = f.pos + 4 * n]
           ELSE [f EXCEPT !.pos = Len(f.data), !.eof = TRUE]]

\* runoff_readFromFile (runoff.c 440-463): the results in the buffer x
\* become the state of subcatchment s
resultsTo(s, x, nPollut) ==
    [s EXCEPT
       !.newSnowDepth = XDiv(x[2], UCF("RAINDEPTH")),
       !.evapLoss = XDiv(x[3], UCF("RAINFALL")),
       !.infilLoss = XDiv(x[4], UCF("RAINFALL")),
       !.newRunoff = XDiv(x[5], UCF("FLOW")),
       !.gwater = IF s.groundwater
                  THEN [@ EXCEPT !.newFlow = XDiv(x[6], UCF("FLOW")),
                                 !.lowerDepth = XSub(s.gwater.aquiferBottomElev,
                                                     XDiv(x[7], UCF("LENGTH"))),
                                 !.theta = x[8]]
                  ELSE @,
       !.newQual = [i \in 1..nPollut |-> x[8 + i]]]

\* runoff_readFromFile (runoff.c 435-464): the loop over the subcatchments;
\* r is what fread found for subcatchment j
RECURSIVE readLoop(_, _, _, _, _)
readResults(acc, j, r, n, nPollut, junk) ==
    readLoop([acc EXCEPT !.Subcatch[j] = resultsTo(@, floatsAt(r.x, n, junk), nPollut),
                         !.F = r.f,
                         !.x = SubSeq(r.x, 1, Len(acc.x)),
                         !.kount = @ + r.n,
                         !.overrun = @ \/ n > Len(acc.x)],
             j + 1, n, nPollut, junk)

readLoop(acc, j, n, nPollut, junk) ==
    IF j > Len(acc.Subcatch) THEN acc
    ELSE readResults(acc, j, freadFloats(acc.F, acc.x, n), n, nPollut, junk)

\* runoff_readFromFile (runoff.c 466-477): acc is the state after the loop,
\* tStep the float read first (in units of 0.0001 sec)
readDone(st, acc, tStep, n, opt) ==
    IF acc.kount < 1 + Len(acc.Subcatch) * n
    THEN [st EXCEPT !.ErrorCode = ERR_RUNOFF_FILE_READ,
                    !.Subcatch = acc.Subcatch, !.F = acc.F, !.x = acc.x,
                    !.tick.path = "file", !.tick.overrun = acc.overrun]
    ELSE [st EXCEPT !.Subcatch = acc.Subcatch, !.F = acc.F, !.x = acc.x,
                    !.Old = st.New,
                    !.New = MIN(XAdd(st.New, XDiv(XMul(tStep, 1000), UNIT)),
                                opt.TotalDuration),
                    !.R.Nsteps = @ + 1,
                    !.tick.path = "file", !.tick.overrun = acc.overrun,
                    !.tick.runoffStep = XDiv(tStep, UNIT)]

\* runoff_readFromFile (runoff.c 427-464): r0 is what fread found for tStep,
\* a local that holds the value junk before
readStep(st, r0, n, nPollut, opt, junk) ==
    readDone(st,
             readLoop([Subcatch |-> [j \in 1..Len(st.Subcatch) |->
                                       subcatch_setOldState(st.Subcatch[j])],
                       F |-> r0.f, x |-> st.x, kount |-> r0.n, overrun |-> FALSE],
                      1, n, nPollut, junk),
             IF r0.n = 1 THEN FloatRead(r0.bytes) ELSE junk,
             n, opt)

\* runoff_readFromFile (runoff.c 401-478); report_writeErrorMsg (report.c
\* 1389) stores the code as the error code
runoff_readFromFile(st, nPollut, opt, junk) ==
    IF st.R.Nsteps > st.R.MaxSteps
    THEN [st EXCEPT !.ErrorCode = ERR_RUNOFF_FILE_END, !.tick.path = "file"]
    ELSE readStep(st, freadItem(st.F, 4), 8 + nPollut, nPollut, opt, junk)

\* runoff_execute (runoff.c 262-274): acc is the state after the loops
\* over the subcatchments, saved the file and buffer after runoff_saveToFile
tickDone(st, acc, saved, runoffStep) ==
    [st EXCEPT
       !.Subcatch = [j \in 1..Len(acc.Subcatch) |-> [acc.Subcatch[j] EXCEPT !.runon = 0]],
       !.Outfall = acc.Outfall,
       !.R = [@ EXCEPT !.HasSnow = acc.HasSnow, !.HasRunoff = acc.HasRunoff,
                       !.HasWetLids = FALSE, !.Nsteps = @ + 1],
       !.F = saved.F, !.x = saved.x,
       !.tick = [@ EXCEPT !.path = "tick", !.runoffStep = runoffStep,
                          !.calls = acc.calls, !.totals = acc.totals,
                          !.routed = acc.routed, !.vRunon = acc.vRunon,
                          !.steps = acc.steps, !.ponded = acc.ponded, !.deposition = acc.deposition,
                          !.overrun = saved.overrun]]

\* runoff_execute (runoff.c 262-271)
tickSaved(st, acc, opt, nobj, runoffStep, junk) ==
    tickDone(st, acc,
             IF st.F.mode = "SAVE_FILE"
             THEN runoff_saveToFile(st.F, st.x, acc.Subcatch, st.Gage, runoffStep,
                                    nobj.POLLUT, opt.IgnoreQuality, junk)
             ELSE [F |-> st.F, x |-> st.x, overrun |-> FALSE],
             runoffStep)

\* runoff_execute (runoff.c 224-229): S holds the subcatchments after the
\* loop over subcatch_getRunon
tickRouted(acc, S) ==
    [acc EXCEPT !.Subcatch = S,
                !.routed = [j \in 1..Len(S) |->
                              [runon |-> S[j].runon,
                               inflow |-> [i \in 1..3 |-> S[j].subArea[i].inflow],
                               newQual |-> S[j].newQual]]]

\* runoff_execute (runoff.c 221-261): acc is the state after
\* runoff_getOutfallRunon
tickRunoff(st, acc, opt, nobj, runoffStep, junk) ==
    tickSaved(st,
              runoffLoop(tickRouted(acc, runonLoop(acc.Subcatch, 1, nobj.POLLUT)),
                         1, st.Gage, opt, runoffStep, st.tick.canSweep),
              opt, nobj, runoffStep, junk)

\* runoff_execute (runoff.c 217-222) with the adjusted step runoffStep
tickSubcatchments(st, opt, nobj, runoffStep, junk) ==
    tickRunoff(st,
               IF st.tick.oldRunoffStep > 0
               THEN runoff_getOutfallRunon(
                        [Subcatch |-> [j \in 1..Len(st.Subcatch) |->
                                         subcatch_setOldState(st.Subcatch[j])],
                         Outfall |-> st.Outfall, HasRunoff |-> FALSE,
                         HasSnow |-> FALSE, calls |-> <<>>, totals |-> st.tick.totals,
                         routed |-> <<>>, vRunon |-> <<>>, steps |-> <<>>, ponded |-> <<>>,
                         deposition |-> <<>>],
                        1, st.tick.oldRunoffStep, nobj.POLLUT)
               ELSE [Subcatch |-> [j \in 1..Len(st.Subcatch) |->
                                     subcatch_setOldState(st.Subcatch[j])],
                     Outfall |-> st.Outfall, HasRunoff |-> FALSE,
                     HasSnow |-> FALSE, calls |-> <<>>, totals |-> st.tick.totals,
                     routed |-> <<>>, vRunon |-> <<>>, steps |-> <<>>, ponded |-> <<>>,
                     deposition |-> <<>>],
               opt, nobj, runoffStep, junk)

\* runoff_execute (runoff.c 197-215): runoffStep is what runoff_getTimeStep
\* returned
tickTimed(st, opt, nobj, runoffStep, junk) ==
    IF runoffStep <= 0
    THEN [st EXCEPT !.ErrorCode = ERR_TIMESTEP, !.tick.path = "timestep",
                    !.tick.runoffStep = runoffStep, !.tick.timeStep = runoffStep]
    ELSE tickSubcatchments(
             [st EXCEPT !.tick.timeStep = runoffStep,
                        !.Old = st.New,
                        !.New = IF st.New + 1000 * runoffStep > opt.TotalDuration
                                THEN opt.TotalDuration
                                ELSE st.New + 1000 * runoffStep],
             opt, nobj,
             IF st.New + 1000 * runoffStep > opt.TotalDuration
             THEN (opt.TotalDuration - st.New) \div 1000
             ELSE runoffStep,
             junk)

\* runoff_execute (runoff.c 184-199): the gages are set; day is the day of
\* the year of the current date t
tickGaged(st, opt, nobj, t, day, junk) ==
    IF st.F.mode = "USE_FILE"
    THEN runoff_readFromFile(st, nobj.POLLUT, opt, junk)
    ELSE tickTimed([st EXCEPT !.tick.day = day, !.tick.t = t,
                              !.tick.wet = \/ st.R.IsRaining \/ st.R.HasSnow
                                           \/ st.R.HasRunoff \/ st.R.HasWetLids,
                              !.tick.canSweep = day >= opt.ReportStep
                                                /\ day <= opt.SweepEnd],
                   opt, nobj, runoff_getTimeStep(opt, st.R, st.Gage, t), junk)

\* runoff_execute without the limit of line 172
runoff_executeAt_NoLimit(st, opt, nobj, t, junk) ==
    IF st.ErrorCode # 0 THEN [st EXCEPT !.tick.path = "error"]
    ELSE IF nobj.SUBCATCH = 0
    THEN [st EXCEPT !.Old = st.New,
                    !.New = st.New + 1000 * opt.DryStep,
                    !.tick.path = "nosubcatch"]
    ELSE tickGaged([st EXCEPT
                      !.Gage = [j \in 1..Len(st.Gage) |-> gage_setState(st.Gage[j], t)],
                      !.R.IsRaining = \E j \in 1..Len(st.Gage) :
                                          gageRate(st.Gage[j], t) > 0],
                   opt, nobj, t, datetime_dayOfYear(opt, t), junk)

\* runoff_execute (runoff.c 138-275) from the state st at the date t;
\* climate_setState (climate.c) leaves the evaporation rate as it is
runoff_executeAt(st, opt, nobj, t, junk) ==
    IF st.ErrorCode # 0 THEN [st EXCEPT !.tick.path = "error"]
    ELSE IF nobj.SUBCATCH = 0
    THEN [st EXCEPT !.Old = st.New,
                    !.New = MIN(st.New + 1000 * opt.DryStep, opt.TotalDuration),
                    !.tick.path = "nosubcatch"]
    ELSE tickGaged([st EXCEPT
                      !.Gage = [j \in 1..Len(st.Gage) |-> gage_setState(st.Gage[j], t)],
                      !.R.IsRaining = \E j \in 1..Len(st.Gage) :
                                          gageRate(st.Gage[j], t) > 0],
                   opt, nobj, t, datetime_dayOfYear(opt, t), junk)

\* the state on entry to runoff_execute
RunoffState ==
    [ErrorCode |-> ErrorCode, Subcatch |-> Subcatch, Gage |-> Gage,
     Outfall |-> Outfall, R |-> RunoffShared, F |-> Frunoff,
     Old |-> OldRunoffTime, New |-> NewRunoffTime, x |-> sp.SubcatchResults,
     tick |-> [TickIdle EXCEPT !.oldRunoffStep =
                                   (NewRunoffTime - OldRunoffTime) \div 1000]]

\* runoff_execute (runoff.c 138-275); junk is the value of a float that lies
\* beyond the end of the buffer or in a local that was never set
runoff_execute ==
    /\ rt.pc \in {"idle", "done"}
    /\ RunoffShared.Nsteps < MaxNsteps
    /\ \E junk \in JunkFloats :
       \E r \in {runoff_executeAt(RunoffState, sp, Nobjects,
                                  NewRunoffTime \div 1000, junk)} :
         /\ ErrorCode' = r.ErrorCode
         /\ Subcatch' = r.Subcatch
         /\ Gage' = r.Gage
         /\ Outfall' = r.Outfall
         /\ RunoffShared' = r.R
         /\ Frunoff' = r.F
         /\ OldRunoffTime' = r.Old
         /\ NewRunoffTime' = r.New
         /\ sp' = [sp EXCEPT !.SubcatchResults = r.x]
         /\ tick' = r.tick
    /\ UNCHANGED <<outVars, Node, Link, routeVars, Nobjects, FlowUnits, Fhotstart1,
                   Fhotstart2, FileVersion, hot>>

-----------------------------------------------------------------------------
(* The state before the files are opened: a project with no results yet    *)
(* and a hot start file that an earlier run of some release has saved.     *)

BigNodeCount == 50      \* the node count of the largest project
MaxNaNItem == 41        \* the NaN replaces one of the first MaxNaNItem values

\* a sub-area (TSubarea) that covers the fraction fArea of its subcatchment
SubareaRec(fArea, routeTo, fOutlet, N, alpha, dStore) ==
    [depth |-> 0, inflow |-> 0, runoff |-> 0, fArea |-> fArea,
     routeTo |-> routeTo, fOutlet |-> fOutlet, N |-> N, alpha |-> alpha,
     dStore |-> dStore]

\* a subcatchment (TSubcatch) of 10 ft2 that drains to no node and no
\* subcatchment, with no rain gage; infil, gw and snow are the state arrays of
\* infil_getState, gwater_getState and snow_getState, gwater the fields of
\* TGroundwater and its aquifer that the runoff driver reads and writes
SubcatchRec(groundwater, snowpack, nPollut, nLandUses) ==
    [subArea |-> <<SubareaRec(2500, "TO_OUTLET", UNIT, 1, 1000, 0),
                   SubareaRec(2500, "TO_OUTLET", UNIT, 1, 1000, 500),
                   SubareaRec(5000, "TO_OUTLET", UNIT, 1, 1000, 1000)>>,
     area |-> 10, lidArea |-> 0, fracImperv |-> 5000,
     outSubcatch |-> 0, outNode |-> 0, gage |-> 0,
     runon |-> 0, rainfall |-> 0,
     oldRunoff |-> 0, newRunoff |-> 0,
     oldSnowDepth |-> 0, newSnowDepth |-> 0,
     evapLoss |-> 0, infilLoss |-> 0, infilCap |-> 0,
     infil |-> Zeros(6),
     groundwater |-> groundwater, gw |-> Zeros(4),
     gwater |-> [oldFlow |-> 0, newFlow |-> 0, lowerDepth |-> 0, theta |-> 0,
                 bottomElev |-> 0, aquiferBottomElev |-> 0, maxInfilVol |-> 0],
     snowpack |-> snowpack, snow |-> [j \in 1..3 |-> Zeros(5)],
     oldQual |-> Zeros(nPollut), newQual |-> Zeros(nPollut),
     pondedQual |-> Zeros(nPollut),
     landFactor |-> [k \in 1..nLandUses |->
                       [buildup |-> Zeros(nPollut), lastSwept |-> 0]]]

\* the projects: node types, the groundwater and snow pack flags of each
\* subcatchment, the pollutant and land use counts; each has one link
Projects ==
    {[nodes |-> <<"JUNCTION", "STORAGE">>, subs |-> <<<<FALSE, FALSE>>>>,
      nPollut |-> 0, nLandUses |-> 0],
     [nodes |-> <<"STORAGE">>, subs |-> <<<<TRUE, TRUE>>>>,
      nPollut |-> 1, nLandUses |-> 1],
     [nodes |-> [i \in 1..BigNodeCount |-> "JUNCTION"], subs |-> <<>>,
      nPollut |-> 0, nLandUses |-> 0]}

ProjectNodes(P) ==
    [i \in 1..Len(P.nodes) |->
       [NodeRec(P.nodes[i], 0, 0, 0, 0, 0) EXCEPT !.newQual = Zeros(P.nPollut)]]

ProjectLinks(P) ==
    <<[LinkRec("CONDUIT", "CIRCULAR", 1, Len(P.nodes), 1, 0)
         EXCEPT !.newQual = Zeros(P.nPollut)]>>

ProjectSubcatch(P) ==
    [i \in 1..Len(P.subs) |->
       SubcatchRec(P.subs[i][1], P.subs[i][2], P.nPollut, P.nLandUses)]

\* the results of the run that saved the file: no value is zero
SavedNodes(N) ==
    [i \in 1..Len(N) |->
       [N[i] EXCEPT !.newDepth = i * UNIT, !.newLatFlow = UNIT \div 2,
                    !.hrt = 3 * UNIT,
                    !.newQual = [j \in DOMAIN N[i].newQual |-> 2 * UNIT]]]

SavedLinks(L) ==
    [i \in 1..Len(L) |->
       [L[i] EXCEPT !.newFlow = 4 * UNIT, !.newDepth = UNIT, !.setting = UNIT,
                    !.newQual = [j \in DOMAIN L[i].newQual |-> 5 * UNIT]]]

SavedSubcatch(S) ==
    [i \in 1..Len(S) |->
       [S[i] EXCEPT !.subArea = [j \in 1..3 |->
                                  [S[i].subArea[j] EXCEPT !.depth = j * 1000]],
                    !.newRunoff = 2 * UNIT,
                    !.infil = [j \in 1..6 |-> j * UNIT],
                    !.gw = [j \in 1..4 |-> 3 * UNIT],
                    !.snow = [j \in 1..3 |-> [k \in 1..5 |-> j * UNIT + k]],
                    !.newQual = [j \in DOMAIN S[i].newQual |-> 6 * UNIT],
                    !.pondedQual = [j \in DOMAIN S[i].newQual |-> 7 * UNIT],
                    !.landFactor = [k \in DOMAIN S[i].landFactor |->
                                      [buildup |-> [j \in DOMAIN S[i].newQual |-> 8 * UNIT],
                                       lastSwept |-> 9 * UNIT]]]]

\* the routing section as releases before 5.1.008 wrote it: for version 2 the
\* moisture content and water table of each subcatchment first, no storage
\* residence time, and up to version 2 a second, zero, value per pollutant
LegacyRouting(version, S, N, L, nPollut) ==
    (IF version = 2
     THEN Concat([i \in 1..Len(S) |->
                    <<FloatBytes(S[i].gw[1]), FloatBytes(S[i].gw[2])>>])
     ELSE <<>>)
    \o Concat([i \in 1..Len(N) |->
                 <<FloatBytes(N[i].newDepth), FloatBytes(N[i].newLatFlow)>>
                 \o [j \in 1..nPollut |-> FloatBytes(N[i].newQual[j])]
                 \o (IF version <= 2
                     THEN [j \in 1..nPollut |-> FloatBytes(0)] ELSE <<>>)])
    \o Concat([i \in 1..Len(L) |->
                 <<FloatBytes(L[i].newFlow), FloatBytes(L[i].newDepth),
                   FloatBytes(L[i].setting)>>
                 \o [j \in 1..nPollut |-> FloatBytes(L[i].newQual[j])]])

\* the values of a file of the given version, one item apiece
HotItems(version, S, N, L, nPollut, nLandUses) ==
    IF version = 4
    THEN saveRunoff(S, nPollut, nLandUses) \o saveRouting(N, L, nPollut)
    ELSE (IF version = 3 THEN saveRunoff(S, nPollut, nLandUses) ELSE <<>>)
         \o LegacyRouting(version, S, N, L, nPollut)

\* the stamp and the counts of a file of the given version
HotHeader(version, nobj, units) ==
    StampChars(CASE version = 1 -> fileStamp [] version = 2 -> fileStamp2
                 [] version = 3 -> fileStamp3 [] version = 4 -> fileStamp4)
    \o (IF version >= 2 THEN IntBytes(nobj.SUBCATCH) ELSE <<>>)
    \o (IF version >= 3 THEN IntBytes(nobj.LANDUSE) ELSE <<>>)
    \o IntBytes(nobj.NODE) \o IntBytes(nobj.LINK) \o IntBytes(nobj.POLLUT)
    \o IntBytes(units)

\* item n, if any, becomes a NaN of the item's size
WithNaN(items, n) ==
    [k \in 1..Len(items) |->
       IF k = n THEN (IF Len(items[k]) = 4 THEN FloatNaN ELSE DoubleNaN)
       ELSE items[k]]

ProjectCounts(P) ==
    [SUBCATCH |-> Len(P.subs), LANDUSE |-> P.nLandUses, NODE |-> Len(P.nodes),
     LINK |-> 1, POLLUT |-> P.nPollut]

\* what is wrong with the file, if anything
FileFaults == {"none", "stamp", "nNodes", "flowUnits"}

HotFile(P, version, fault, n) ==
    LET nobj == ProjectCounts(P)
        head == HotHeader(version,
                          IF fault = "nNodes" THEN [nobj EXCEPT !.NODE = nobj.NODE + 1]
                          ELSE nobj,
                          IF fault = "flowUnits" THEN 1 ELSE 0)
        items == HotItems(version, SavedSubcatch(ProjectSubcatch(P)),
                          SavedNodes(ProjectNodes(P)), SavedLinks(ProjectLinks(P)),
                          P.nPollut, P.nLandUses)
    IN  (IF fault = "stamp" THEN <<88>> \o Tail(head) ELSE head)
        \o Concat(WithNaN(items, n))

FileRec(mode, exists, data) ==
    [mode |-> mode, file |-> "NULL", open |-> FALSE, exists |-> exists,
     data |-> data, pos |-> 0, eof |-> FALSE]

\* a runoff interface file with its header and no records
RunoffFile(nobj, units, MaxSteps) ==
    StampChars(runoffStamp) \o IntBytes(nobj.SUBCATCH) \o IntBytes(nobj.POLLUT)
    \o IntBytes(units) \o IntBytes(MaxSteps)

\* the runoff interface file: none, one to save, one that cannot be opened,
\* one with a good header, one with no steps, one with a wrong stamp
RunoffFiles(nobj) ==
    {NoFile, FileRec("SAVE_FILE", TRUE, <<>>), FileRec("USE_FILE", FALSE, <<>>),
     FileRec("USE_FILE", TRUE, RunoffFile(nobj, 0, 3)),
     FileRec("USE_FILE", TRUE, RunoffFile(nobj, 0, 0)),
     FileRec("USE_FILE", TRUE, <<88>> \o Tail(RunoffFile(nobj, 0, 3)))}

InitHotstart ==
    /\ layout = LayoutIdle
    /\ OutputAtRest
    /\ ErrorCode = ERR_NONE
    /\ AllowPonding = FALSE
    /\ sortedLinks = <<1>>
    /\ rt = RouteIdle
    /\ FlowUnits = 0
    /\ FileVersion = 0
    /\ RunoffShared = RunoffIdle
    /\ RunoffAtRest
    /\ \E P \in Projects :
         /\ Nobjects = ProjectCounts(P)
         /\ Node = ProjectNodes(P)
         /\ Link = ProjectLinks(P)
         /\ Subcatch = ProjectSubcatch(P)
         /\ \/ /\ \E version \in 1..4, fault \in FileFaults :
                    \E n \in 0..MIN(MaxNaNItem,
                                    Len(HotItems(version, Subcatch, Node, Link,
                                                 P.nPollut, P.nLandUses))) :
                       /\ fault # "none" => n = 0
                       /\ Fhotstart1 = FileRec("USE_FILE", TRUE,
                                               HotFile(P, version, fault, n))
                       /\ hot = [HotIdle EXCEPT !.made = [version |-> version,
                                                         fault |-> fault, n |-> n]]
               /\ Fhotstart2 \in {NoFile, FileRec("SAVE_FILE", TRUE, <<>>)}
               /\ Frunoff = NoFile
            \/ /\ Fhotstart1 \in {FileRec("USE_FILE", FALSE, <<>>), NoFile}
               /\ Fhotstart2 \in {NoFile, FileRec("SAVE_FILE", TRUE, <<>>),
                                  FileRec("SAVE_FILE", FALSE, <<>>)}
               /\ Frunoff \in RunoffFiles(Nobjects)
               /\ hot = HotIdle

NextHotstart ==
    \/ hotstart_open
    \/ hotstart_close
    \/ runoff_open
    \/ runoff_close

SpecHotstart == InitHotstart /\ [][NextHotstart]_vars

-----------------------------------------------------------------------------
(* Properties of the hot start and runoff interface files.                 *)

\* hotstart_open has returned from reading a hot start file that exists
HotstartRead ==
    /\ hot.open # "idle"
    /\ hot.entry = 0
    /\ Fhotstart1.mode = "USE_FILE"
    /\ Fhotstart1.exists

\* C8: reading a hot start file stops with a read error at the first NaN,
\* float or double: ErrorCode is ERR_HOTSTART_FILE_READ, hotstart_open returns
\* FALSE and no field that lies behind the NaN in the file is applied
C8_NaNAbortsRead ==
    (HotstartRead /\ hot.nanAt >= 0) =>
        /\ hot.exit = ERR_HOTSTART_FILE_READ
        /\ hot.open = "FALSE"
        /\ \A k \in DOMAIN hot.log : hot.log[k][2] <= hot.nanAt

\* the same for the floats of the routing section alone
C8_FloatNaNAbortsRead ==
    (HotstartRead /\ hot.nanBy = "readFloat") =>
        /\ hot.exit = ERR_HOTSTART_FILE_READ
        /\ hot.open = "FALSE"
        /\ \A k \in DOMAIN hot.log : hot.log[k][2] < hot.nanAt

\* C9: every stream is closed on every exit path: the input hot start stream
\* when hotstart_open has returned, the output hot start stream when
\* hotstart_close has, the runoff interface stream when runoff_close has
C9_StreamsClosed ==
    /\ hot.open # "idle" => ~Fhotstart1.open
    /\ hot.close = "done" => ~Fhotstart2.open
    /\ hot.rclose = "done" => ~Frunoff.open

\* the part of it that concerns the streams closed by the close operations
C9_OutputStreamsClosed ==
    /\ hot.close = "done" => ~Fhotstart2.open
    /\ hot.rclose = "done" => ~Frunoff.open

\* C10: a well-formed file of version 1 to 4 with the project's counts and
\* flow units is accepted and FileVersion is its version; a file with another
\* stamp or another count or flow units yields ERR_HOTSTART_FILE_FORMAT and
\* nothing of it is applied
C10_AcceptsEveryVersion ==
    HotstartRead =>
        /\ (hot.made.fault = "none" /\ hot.made.n = 0) =>
               /\ hot.open = "TRUE"
               /\ hot.exit = 0
               /\ FileVersion = hot.made.version
        /\ hot.made.fault # "none" =>
               /\ hot.open = "FALSE"
               /\ hot.exit = ERR_HOTSTART_FILE_FORMAT
               /\ hot.log = <<>>

\* the same for the projects whose node count does not end in the character
\* code of 2, 3 or 4
C10_AcceptsSmallProjects ==
    (HotstartRead /\ Nobjects.NODE % 256 \notin {50, 51, 52}) =>
        /\ (hot.made.fault = "none" /\ hot.made.n = 0) =>
               /\ hot.open = "TRUE"
               /\ hot.exit = 0
               /\ FileVersion = hot.made.version
        /\ hot.made.fault # "none" =>
               /\ hot.open = "FALSE"
               /\ hot.exit = ERR_HOTSTART_FILE_FORMAT
               /\ hot.log = <<>>

\* hotstart_open has read a well-formed version-4 file of the project
ReadVersion4 ==
    /\ HotstartRead
    /\ hot.made.version = 4 /\ hot.made.fault = "none" /\ hot.made.n = 0

\* the double that a float written from v is read back as
AsFloat(v) == FloatValue(FloatBytes(v))

\* C11: for a version-4 hot start file, readRunoff and readRouting consume
\* exactly the fields that saveRunoff and saveRouting wrote, in their order
\* and number, whether or not a subcatchment has groundwater or a snow pack,
\* a node is a storage node, and there are pollutants and land uses: the
\* file is read to its last byte, every restored sub-area depth, runoff,
\* node depth, lateral inflow, storage residence time, link flow, link depth
\* and quality equals the value that was saved, and saving the restored
\* state writes the same file again
C11_RoundTripVersion4 ==
    ReadVersion4 =>
        /\ hot.open = "TRUE"
        /\ Fhotstart1.pos = Len(Fhotstart1.data) /\ ~Fhotstart1.eof
        /\ \A i \in DOMAIN Subcatch :
             /\ \A j \in 1..3 : Subcatch[i].subArea[j].depth
                                    = SavedSubcatch(Subcatch)[i].subArea[j].depth
             /\ Subcatch[i].newRunoff = SavedSubcatch(Subcatch)[i].newRunoff
             /\ Subcatch[i].infil = SavedSubcatch(Subcatch)[i].infil
             /\ Subcatch[i].groundwater =>
                    Subcatch[i].gw = SavedSubcatch(Subcatch)[i].gw
             /\ Subcatch[i].snowpack =>
                    Subcatch[i].snow = SavedSubcatch(Subcatch)[i].snow
             /\ Subcatch[i].newQual = SavedSubcatch(Subcatch)[i].newQual
             /\ Subcatch[i].pondedQual = SavedSubcatch(Subcatch)[i].pondedQual
             /\ Nobjects.POLLUT > 0 =>
                    Subcatch[i].landFactor = SavedSubcatch(Subcatch)[i].landFactor
        /\ \A i \in DOMAIN Node :
             /\ Node[i].newDepth = AsFloat(SavedNodes(Node)[i].newDepth)
             /\ Node[i].newLatFlow = AsFloat(SavedNodes(Node)[i].newLatFlow)
             /\ Node[i].type = "STORAGE" =>
                    Node[i].hrt = AsFloat(SavedNodes(Node)[i].hrt)
             /\ \A j \in DOMAIN Node[i].newQual :
                    Node[i].newQual[j] = AsFloat(SavedNodes(Node)[i].newQual[j])
        /\ \A i \in DOMAIN Link :
             /\ Link[i].newFlow = AsFloat(SavedLinks(Link)[i].newFlow)
             /\ Link[i].newDepth = AsFloat(SavedLinks(Link)[i].newDepth)
             /\ \A j \in DOMAIN Link[i].newQual :
                    Link[i].newQual[j] = AsFloat(SavedLinks(Link)[i].newQual[j])
        /\ (hot.close = "done" /\ Fhotstart2.mode = "SAVE_FILE") =>
               Fhotstart2.data = Fhotstart1.data

\* a version-4 file of the project with groundwater, a snow pack, a pollutant,
\* a land use and a storage node was read and the state was saved again
C11_Witness ==
    /\ ReadVersion4
    /\ hot.open = "TRUE"
    /\ Nobjects.POLLUT = 1 /\ Nobjects.LANDUSE = 1
    /\ Subcatch[1].groundwater /\ Subcatch[1].snowpack
    /\ Node[1].type = "STORAGE" /\ Node[1].hrt = 3 * UNIT
    /\ Subcatch[1].snow[3][5] = 3 * UNIT + 5
    /\ hot.close = "done" /\ Fhotstart2.mode = "SAVE_FILE"
    /\ Len(Fhotstart2.data) > 0

-----------------------------------------------------------------------------
(* The state after the project is opened, before the first time step: the  *)
(* runoff module is open and the clocks are at 0.                          *)

\* the project of the runoff steps: subcatchment 1 with three sub-areas whose
\* impervious runoff is half routed to the pervious one, draining to
\* subcatchment 2; subcatchment 2, all pervious with a zero Manning N and a
\* depression storage that the rain fills within a step, draining to node 1;
\* subcatchment 3 of zero area
StepSubcatch(nPollut) ==
    <<[SubcatchRec(FALSE, FALSE, nPollut, 0) EXCEPT
         !.subArea = <<[SubareaRec(2500, "TO_PERV", 5000, 1, 1000, 0)
                          EXCEPT !.depth = 5000],
                       [SubareaRec(2500, "TO_PERV", 5000, 1, 1000, 500)
                          EXCEPT !.depth = 5000],
                       [SubareaRec(5000, "TO_OUTLET", UNIT, 1, 1000, 1000)
                          EXCEPT !.depth = 500]>>,
         !.outSubcatch = 2, !.gage = 1, !.infilCap = 1,
         !.newQual = [p \in 1..nPollut |-> 3 * UNIT]],
      [SubcatchRec(FALSE, FALSE, nPollut, 0) EXCEPT
         !.subArea = <<SubareaRec(0, "TO_OUTLET", UNIT, 1, 1000, 0),
                       SubareaRec(0, "TO_OUTLET", UNIT, 1, 1000, 0),
                       SubareaRec(UNIT, "TO_OUTLET", UNIT, 0, 0, 16)>>,
         !.area = 4, !.fracImperv = 0, !.outNode = 1, !.gage = 1,
         !.infilCap = 1],
      [SubcatchRec(FALSE, FALSE, nPollut, 0) EXCEPT !.area = 0]>>

\* the same project with subcatchment 1 draining to subcatchment 3 and the
\* outfall routed onto subcatchment 3, the one of zero area
StepRouted(S, toZero) == IF toZero THEN [S EXCEPT ![1].outSubcatch = 3] ELSE S

StepRoutedOutfall(O, toZero) ==
    IF toZero THEN [j \in 1..Len(O) |-> [O[j] EXCEPT !.routeTo = 3]] ELSE O

\* the pairs of DryStep and WetStep (sec)
StepPairs == {<<3, 2>>, <<2, 3>>}

\* the rainfall rates of the gage, one per interval of 4 sec
RainSeries == {<<0, 0>>, <<10, 0>>}

StepGage(series) ==
    <<[rainfall |-> 0, snowfall |-> 0, reportRainfall |-> 0, series |-> series,
       interval |-> 4]>>

\* the outfall whose flow is routed onto subcatchment 1
StepOutfall(nPollut) ==
    <<[routeTo |-> 1, vRouted |-> 18000,
       wRouted |-> [p \in 1..nPollut |-> 1000]]>>

\* the project with the source after the receiver: subcatchment 2, with
\* ponded impervious sub-areas, one of them with a zero Manning N, drains to
\* subcatchment 1, whose ponded
\* pervious sub-area is half routed to the impervious one and whose first
\* impervious sub-area has a Manning N but a zero alpha (no slope) and whose
\* second one holds less water than a step evaporates; the outfall is routed
\* onto subcatchment 2
StepReversed(nPollut) ==
    <<[SubcatchRec(FALSE, FALSE, nPollut, 0) EXCEPT
         !.subArea = <<SubareaRec(2500, "TO_OUTLET", UNIT, 1, 0, 0),
                       [SubareaRec(2500, "TO_OUTLET", UNIT, 1, 1000, 500)
                          EXCEPT !.depth = 2],
                       [SubareaRec(5000, "TO_IMPERV", 5000, 1, 1000, 1000)
                          EXCEPT !.depth = 5000]>>,
         !.outNode = 1, !.gage = 1],
      [StepSubcatch(nPollut)[1] EXCEPT !.outSubcatch = 1,
                                        !.subArea[IMPERV1].N = 0,
                                        !.subArea[IMPERV1].alpha = 0],
      StepSubcatch(nPollut)[3]>>

\* the ways the runoff is routed: down from subcatchment 1 to 2, onto the
\* subcatchment of zero area, up from subcatchment 2 to 1
StepRoutings == {"down", "zero", "up"}

StepSubcatchOf(routing, nPollut) ==
    IF routing = "up" THEN StepReversed(nPollut)
    ELSE StepRouted(StepSubcatch(nPollut), routing = "zero")

StepOutfallOf(routing, nPollut) ==
    IF routing = "up"
    THEN [j \in 1..Len(StepOutfall(nPollut)) |->
            [StepOutfall(nPollut)[j] EXCEPT !.routeTo = 2]]
    ELSE StepRoutedOutfall(StepOutfall(nPollut), routing = "zero")

\* the options of the project; output_open (output.c 78-84, 121) makes the
\* buffer of MAX_SUBCATCH_RESULTS - 1 floats and one for each pollutant that
\* is reported, none if the quality is ignored
StepOptions(nPollut, IgnoreQuality) ==
    [TotalDuration |-> 5000, DryStep |-> 3, WetStep |-> 2, ReportStep |-> 60,
     SweepStart |-> 120, SweepEnd |-> 200, IgnoreSnowmelt |-> TRUE,
     IgnoreQuality |-> IgnoreQuality, IgnoreGwater |-> TRUE,
     Evap |-> [rate |-> 1, dryOnly |-> FALSE], StartDay |-> 100,
     NextEvapDate |-> 86400,
     SubcatchResults |-> Zeros(8 + (IF IgnoreQuality THEN 0 ELSE nPollut))]

\* the records of a runoff interface file: for each of the steps the time
\* step of 2 sec and the results of each subcatchment
RunoffRecords(nobj, steps) ==
    Concat([k \in 1..steps |->
              FloatBytes(2 * UNIT)
              \o Concat([j \in 1..nobj.SUBCATCH |->
                           Concat([i \in 1..(8 + nobj.POLLUT) |->
                                     FloatBytes((10 * k + j) * 1000 + i)])])])

\* the runoff interface file: none, one to save, one that an earlier run
\* has saved with two steps, and the same cut short in the second step
StepFiles(nobj) ==
    {NoFile, FileRec("SAVE_FILE", TRUE, <<>>),
     FileRec("USE_FILE", TRUE, RunoffFile(nobj, 0, 2) \o RunoffRecords(nobj, 2)),
     FileRec("USE_FILE", TRUE,
             RunoffFile(nobj, 0, 2)
             \o SubSeq(RunoffRecords(nobj, 2), 1, Len(RunoffRecords(nobj, 2)) - 6))}

InitStep ==
    /\ layout = LayoutIdle
    /\ OutputAtRest
    /\ AllowPonding = FALSE
    /\ Node = <<NodeRec("STORAGE", 50 * UNIT, 5 * UNIT, 0, 0, 0),
                NodeRec("JUNCTION", 0, 0, 0, 0, 0),
                NodeRec("OUTFALL", 0, 0, 0, 0, 0)>>
    /\ Link = <<LinkRec("CONDUIT", "CIRCULAR", 1, 2, 1, 0),
                LinkRec("CONDUIT", "DUMMY", 2, 3, 1, 0)>>
    /\ sortedLinks = <<1, 2>>
    /\ \E m \in {"SF", "KW", "DW"} : rt = [RouteIdle EXCEPT !.model = m]
    /\ FlowUnits = 0
    /\ Fhotstart1 = NoFile /\ Fhotstart2 = NoFile
    /\ FileVersion = 0
    /\ hot = [HotIdle EXCEPT !.ropen = "done"]
    /\ OldRunoffTime = 0 /\ NewRunoffTime = 0
    /\ tick = TickIdle
    /\ \E nSubcatch \in {0, 3}, nPollut \in {0, 1}, IgnoreQuality \in BOOLEAN,
          routing \in StepRoutings :
         /\ Nobjects = [SUBCATCH |-> nSubcatch, LANDUSE |-> 0, NODE |-> Len(Node),
                        LINK |-> Len(Link), POLLUT |-> nPollut]
         /\ Subcatch = SubSeq(StepSubcatchOf(routing, nPollut), 1, nSubcatch)
         /\ Outfall = IF nSubcatch = 0
                      THEN <<[StepOutfall(nPollut)[1] EXCEPT !.routeTo = 0]>>
                      ELSE StepOutfallOf(routing, nPollut)
         /\ \E steps \in StepPairs :
              sp = [StepOptions(nPollut, IgnoreQuality) EXCEPT
                      !.DryStep = steps[1], !.WetStep = steps[2]]
    /\ \E series \in RainSeries : Gage = StepGage(series)
    /\ \E F \in StepFiles(Nobjects), odeOk \in BOOLEAN :
       \E r \in {runoff_openFrom(F, ERR_NONE, RunoffIdle, Nobjects, FlowUnits,
                                 odeOk, TRUE)} :
         /\ Frunoff = r.F
         /\ RunoffShared = r.R
         /\ ErrorCode = r.ErrorCode

NextStep ==
    \/ flowrout_begin
    \/ flowrout_link
    \/ flowrout_finish
    \/ runoff_execute

SpecStep == InitStep /\ [][NextStep]_vars

-----------------------------------------------------------------------------
(* Properties of the time step.                                            *)

\* C7: if ErrorCode is not zero on entry, flowrout_execute returns 0 and
\* runoff_execute returns without a change of any node, link or
\* subcatchment and of the runoff clocks (no node is reset, no link is
\* routed, the clocks do not advance), and ErrorCode is not set back to 0
C7_ErrorMeansNoStep ==
    [][ErrorCode # 0 =>
         /\ ErrorCode' # 0
         /\ Node' = Node /\ Link' = Link /\ Subcatch' = Subcatch
         /\ OldRunoffTime' = OldRunoffTime /\ NewRunoffTime' = NewRunoffTime
         /\ rt' # rt => rt' = [rt EXCEPT !.pc = "done", !.ret = 0]]_vars

\* both operations were entered with an error code and have returned
C7_BothReturnedOnError ==
    /\ ErrorCode # 0
    /\ tick.path = "error"
    /\ rt.pc = "done" /\ rt.ret = 0 /\ rt.i = 0

-----------------------------------------------------------------------------
(* output.c: the binary output file.  sp->OutputShared, sp->OutputExport   *)
(* and sp->Nperiods are the record otpt; RptFlag holds the rptFlag of each  *)
(* subcatchment, node and link.  A date is a number of seconds, a report   *)
(* time a number of msec since the start of the simulation.                *)

\* the object names: a letter and the digit of the index
objectID(letter, j) == <<letter, 48 + j>>

\* output_saveID (output.c 482-493)
output_saveID(id) == IntBytes(Len(id)) \o id

\* the indices of the objects that are reported on, in index order
Reported(flags) == SelectSeq([j \in 1..Len(flags) |-> j], LAMBDA j : flags[j])

\* the codes of the node and link types (enums.h)
NodeTypeCode(t) ==
    CASE t = "JUNCTION" -> 0 [] t = "OUTFALL" -> 1 [] t = "STORAGE" -> 2
      [] t = "DIVIDER" -> 3

LinkTypeCode(t) ==
    CASE t = "CONDUIT" -> 0 [] t = "PUMP" -> 1 [] t = "ORIFICE" -> 2
      [] t = "WEIR" -> 3 [] t = "OUTLET" -> 4

\* output_openOutFile (output.c 376-403): the file of the project, and the
\* error code after the attempt to open it
output_openOutFile(F, err) ==
    [F |-> [(IF F.file # "NULL" THEN F
             ELSE IF F.name # "" THEN [F EXCEPT !.mode = "SAVE_FILE"]
             ELSE [F EXCEPT !.mode = "SCRATCH_FILE", !.name = "tmp"])
              EXCEPT !.file = IF F.exists THEN "FILE" ELSE "NULL",
                     !.open = F.exists, !.data = <<>>, !.pos = 0, !.eof = FALSE],
     ErrorCode |-> IF F.exists THEN err ELSE ERR_OUT_FILE]

\* lines 79-116: the numbers of results and of reported objects
outputCounts(o, nobj, Rpt, IgnoreQuality) ==
    [o EXCEPT
       !.NumPolluts = IF IgnoreQuality THEN 0 ELSE nobj.POLLUT,
       !.NsubcatchResults = MAX_SUBCATCH_RESULTS - 1
                            + (IF IgnoreQuality THEN 0 ELSE nobj.POLLUT),
       !.NnodeResults = MAX_NODE_RESULTS - 1
                        + (IF IgnoreQuality THEN 0 ELSE nobj.POLLUT),
       !.NlinkResults = MAX_LINK_RESULTS - 1
                        + (IF IgnoreQuality THEN 0 ELSE nobj.POLLUT),
       !.NumSubcatch = Len(Reported(Rpt.SUBCATCH)),
       !.NumNodes = Len(Reported(Rpt.NODE)),
       !.NumLinks = Len(Reported(Rpt.LINK)),
       !.Nperiods = 0]

\* the size of a record without the 8 bytes of its date
outputBytesPerPeriod_NoDate(o) ==
    o.NumSubcatch * o.NsubcatchResults * 4 + o.NumNodes * o.NnodeResults * 4
    + o.NumLinks * o.NlinkResults * 4 + MAX_SYS_RESULTS * 4

outputBytesPerPeriod(o) ==
    8 + o.NumSubcatch * o.NsubcatchResults * 4 + o.NumNodes * o.NnodeResults * 4
    + o.NumLinks * o.NlinkResults * 4 + MAX_SYS_RESULTS * 4

\* lines 121-123: the three buffers, zeroed by calloc
outputBuffers(o) ==
    [o EXCEPT !.BytesPerPeriod = outputBytesPerPeriod(o),
              !.SubcatchResults = Zeros(o.NsubcatchResults),
              !.NodeResults = Zeros(o.NnodeResults),
              !.LinkResults = Zeros(o.NlinkResults)]

\* lines 130-144: the magic number, the version, the flow units, the counts
headCounts(o, units) ==
    IntBytes(MAGICNUMBER) \o IntBytes(VERSION) \o IntBytes(units)
    \o IntBytes(o.NumSubcatch) \o IntBytes(o.NumNodes) \o IntBytes(o.NumLinks)
    \o IntBytes(o.NumPolluts)

\* lines 148-174: the names of the reported objects and of the pollutants,
\* and the units of the pollutants
headIDs(o, Rpt) ==
    Concat([k \in 1..o.NumSubcatch |->
              output_saveID(objectID(83, Reported(Rpt.SUBCATCH)[k]))])
    \o Concat([k \in 1..o.NumNodes |->
                 output_saveID(objectID(78, Reported(Rpt.NODE)[k]))])
    \o Concat([k \in 1..o.NumLinks |->
                 output_saveID(objectID(76, Reported(Rpt.LINK)[k]))])
    \o Concat([j \in 1..o.NumPolluts |-> output_saveID(objectID(80, j))])
    \o Concat([j \in 1..o.NumPolluts |-> IntBytes(0)])

\* lines 223-252: the type, offsets, depth and length of a link
headLink(l) ==
    IntBytes(LinkTypeCode(l.type))
    \o (IF l.type = "PUMP"
        THEN Concat([m \in 1..4 |-> FloatWrite(0)])
        ELSE FloatWrite(XMul(l.offset1, UCF("LENGTH")))
             \o FloatWrite(XMul(l.offset2, UCF("LENGTH")))
             \o FloatWrite(IF l.type = "OUTLET" THEN 0
                           ELSE XMul(l.yFull, UCF("LENGTH")))
             \o FloatWrite(IF l.type = "CONDUIT"
                           THEN XMul(l.length * UNIT, UCF("LENGTH")) ELSE 0))

\* lines 178-252: the input data of the reported objects; the nodes of the
\* model have no invert elevation
headInput(o, Rpt, S, N, L) ==
    IntBytes(1) \o IntBytes(INPUT_AREA)
    \o Concat([k \in 1..o.NumSubcatch |->
                 FloatWrite(XMul(S[Reported(Rpt.SUBCATCH)[k]].area * UNIT,
                                 UCF("LANDAREA")))])
    \o IntBytes(3) \o IntBytes(INPUT_TYPE_CODE) \o IntBytes(INPUT_INVERT)
    \o IntBytes(INPUT_MAX_DEPTH)
    \o Concat([k \in 1..o.NumNodes |->
                 IntBytes(NodeTypeCode(N[Reported(Rpt.NODE)[k]].type))
                 \o FloatWrite(0)
                 \o FloatWrite(XMul(N[Reported(Rpt.NODE)[k]].fullDepth,
                                    UCF("LENGTH")))])
    \o IntBytes(5) \o IntBytes(INPUT_TYPE_CODE) \o IntBytes(INPUT_OFFSET)
    \o IntBytes(INPUT_OFFSET) \o IntBytes(INPUT_MAX_DEPTH) \o IntBytes(INPUT_LENGTH)
    \o Concat([k \in 1..o.NumLinks |-> headLink(L[Reported(Rpt.LINK)[k]])])

\* lines 254-323: the number and the codes of the result variables
headCodes(o) ==
    IntBytes(o.NsubcatchResults)
    \o Concat([k \in 1..o.NsubcatchResults |-> IntBytes(k - 1)])
    \o IntBytes(o.NnodeResults)
    \o Concat([k \in 1..o.NnodeResults |-> IntBytes(k - 1)])
    \o IntBytes(o.NlinkResults)
    \o Concat([k \in 1..o.NlinkResults |-> IntBytes(k - 1)])
    \o IntBytes(MAX_SYS_RESULTS)
    \o Concat([k \in 1..MAX_SYS_RESULTS |-> IntBytes(k - 1)])

\* lines 329-338: the start of the reporting, one period before the first
\* result that is reported, and the reporting step
headDates(opt) ==
    DoubleBytes((IF opt.StartDateTime + opt.ReportStep > opt.ReportStart
                 THEN opt.StartDateTime
                 ELSE opt.StartDateTime
                      + (((opt.ReportStart - opt.StartDateTime) \div opt.ReportStep)
                         - 1) * opt.ReportStep) * UNIT)
    \o IntBytes(opt.ReportStep)

\* output_checkFileSize (output.c 350-371)
output_checkFileSize(err, o, opt) ==
    IF /\ opt.RptFlags # "NONE"
       /\ o.OutputStartPos
          + (o.BytesPerPeriod * opt.TotalDuration) \div (1000 * opt.ReportStep)
          >= MAXFILESIZE
    THEN ERR_FILE_SIZE ELSE err

\* lines 130-345: the header is written at the start of the file
outputHeader(F, err, o, opt, units, Rpt, S, N, L) ==
    [F |-> fwrite([F EXCEPT !.pos = 0],
                  headCounts(o, units) \o headIDs(o, Rpt)
                  \o headInput(o, Rpt, S, N, L) \o headCodes(o) \o headDates(opt)),
     o |-> [o EXCEPT !.IDStartPos = Len(headCounts(o, units)),
                     !.InputStartPos = Len(headCounts(o, units) \o headIDs(o, Rpt)),
                     !.OutputStartPos =
                         Len(headCounts(o, units) \o headIDs(o, Rpt)
                             \o headInput(o, Rpt, S, N, L) \o headCodes(o)
                             \o headDates(opt))],
     ErrorCode |-> err]

outputChecked(r, opt) ==
    [r EXCEPT !.ErrorCode = IF r.F.mode = "SCRATCH_FILE"
                            THEN output_checkFileSize(r.ErrorCode, r.o, opt)
                            ELSE r.ErrorCode]

\* lines 76-345, after the file f was opened with the error code err
outputOpened(f, err, o, opt, nobj, units, Rpt, S, N, L, memOk) ==
    IF err # 0 THEN [F |-> f, o |-> o, ErrorCode |-> err]
    ELSE IF ~memOk
    THEN [F |-> f, ErrorCode |-> ERR_MEMORY,
          o |-> outputCounts(o, nobj, Rpt, opt.IgnoreQuality)]
    ELSE outputChecked(
           outputHeader(f, err,
                        outputBuffers(outputCounts(o, nobj, Rpt, opt.IgnoreQuality)),
                        opt, units, Rpt, S, N, L),
           opt)

\* output_open (output.c 58-346); the allocation of the buffers may fail
output_open ==
    /\ otpt.pc = "closed"
    /\ \E memOk \in BOOLEAN :
       \E f \in {output_openOutFile(Fout, ErrorCode)} :
       \E r \in {outputOpened(f.F, f.ErrorCode, otpt, sp, Nobjects, FlowUnits,
                              RptFlag, Subcatch, Node, Link, memOk)} :
         /\ Fout' = r.F
         /\ ErrorCode' = r.ErrorCode
         /\ otpt' = [r.o EXCEPT !.pc = IF r.ErrorCode = 0 THEN "open" ELSE "failed"]
    /\ UNCHANGED <<Node, Link, routeVars, projVars, fileVars, runoffVars, RptFlag>>

\* getDateTime (swmm5.c): the date of an elapsed time
getDateTime(opt, t) == opt.StartDateTime + t \div 1000

\* gage_setReportRainfall (gage.c): the rainfall of the gage at the date
gage_setReportRainfall(g, t) == [g EXCEPT !.reportRainfall = gageRate(g, t)]

\* the weight of the new results at the report time between two times (msec)
reportWeight(t, old, new) == XDiv(XMul(t - old, UNIT), new - old)

\* node_getResults (node.c): the results of a node at weight f into x
node_getResults(n, f, x, IgnoreQuality) ==
    [k \in 1..Len(x) |->
       CASE k = 1 -> XMul(n.newDepth, UCF("LENGTH"))
         [] k = 2 -> XMul(n.newDepth, UCF("LENGTH"))
         [] k = 3 -> XMul(wtd(f, n.oldVolume, n.newVolume), UCF("VOLUME"))
         [] k = 4 -> XMul(n.newLatFlow, UCF("FLOW"))
         [] k = 5 -> XMul(n.inflow, UCF("FLOW"))
         [] k = 6 -> XMul(n.overflow, UCF("FLOW"))
         [] OTHER -> IF IgnoreQuality \/ k - 6 > Len(n.newQual) THEN x[k]
                     ELSE n.newQual[k - 6]]

\* link_getResults (link.c): the results of a link at weight f into x
link_getResults(l, f, x, IgnoreQuality) ==
    [k \in 1..Len(x) |->
       CASE k = 1 -> XMul(l.newFlow, UCF("FLOW"))
         [] k = 2 -> XMul(l.newDepth, UCF("LENGTH"))
         [] k = 3 -> 0
         [] k = 4 -> XMul(l.newVolume, UCF("VOLUME"))
         [] k = 5 -> l.setting * UNIT
         [] OTHER -> IF IgnoreQuality \/ k - 5 > Len(l.newQual) THEN x[k]
                     ELSE l.newQual[k - 5]]

\* the results as they lie in the file
floatsBytes(x, n) == Concat([k \in 1..n |-> FloatWrite(x[k])])

\* lines 524-545 for subcatchment j, whose results are x: r holds the file,
\* the buffer, the system results, the total area and what was written
saveSubcatchOne(r, s, flag, x, n) ==
    [r EXCEPT
       !.F = IF flag THEN fwrite(r.F, floatsBytes(x, n)) ELSE r.F,
       !.sub = IF flag THEN Append(r.sub, SubSeq(x, 1, n)) ELSE r.sub,
       !.x = x,
       !.totalArea = XAdd(r.totalArea, XMul(s.area, UCF("LANDAREA"))),
       !.sys.RAINFALL = XAdd(r.sys.RAINFALL, XMul(x[1], s.area)),
       !.sys.SNOWDEPTH = XAdd(r.sys.SNOWDEPTH, XMul(x[2], s.area)),
       !.sys.EVAP = XAdd(r.sys.EVAP, XMul(x[3], s.area)),
       !.sys.INFIL = XAdd(r.sys.INFIL, XMul(x[4], s.area)),
       !.sys.RUNOFF = XAdd(r.sys.RUNOFF, x[5])]

RECURSIVE saveSubcatchLoop(_, _, _, _, _, _, _, _)
saveSubcatchLoop(r, j, S, G, flags, f, n, IgnoreQuality) ==
    IF j > Len(S) THEN r
    ELSE saveSubcatchLoop(
           saveSubcatchOne(r, S[j], flags[j],
                           subcatch_getResults(S[j], G, f, r.x, IgnoreQuality), n),
           j + 1, S, G, flags, f, n, IgnoreQuality)

\* lines 547-561: temperature, evaporation and the means over the area
saveSubcatchSys(r, opt) ==
    [r EXCEPT
       !.sys.TEMPERATURE = opt.Temp,
       !.sys.PET = XMul(opt.Evap.rate, UCF("EVAPRATE")),
       !.sys.EVAP = IF r.totalArea > 0 THEN XDiv(r.sys.EVAP, r.totalArea)
                    ELSE r.sys.EVAP,
       !.sys.RAINFALL = IF r.totalArea > 0 THEN XDiv(r.sys.RAINFALL, r.totalArea)
                        ELSE r.sys.RAINFALL,
       !.sys.SNOWDEPTH = IF r.totalArea > 0 THEN XDiv(r.sys.SNOWDEPTH, r.totalArea)
                         ELSE r.sys.SNOWDEPTH,
       !.sys.INFIL = IF r.totalArea > 0 THEN XDiv(r.sys.INFIL, r.totalArea)
                     ELSE r.sys.INFIL]

\* output_saveSubcatchResults (output.c 497-562) at the weight f
output_saveSubcatchResults(r, S, G, flags, f, n, opt) ==
    saveSubcatchSys(saveSubcatchLoop([r EXCEPT !.x = r.o.SubcatchResults,
                                               !.totalArea = 0],
                                     1, S, G, flags, f, n, opt.IgnoreQuality),
                    opt)

\* lines 585-595 for node j, whose results are x
saveNodeOne(r, flag, x, n) ==
    [r EXCEPT !.F = IF flag THEN fwrite(r.F, floatsBytes(x, n)) ELSE r.F,
              !.node = IF flag THEN Append(r.node, SubSeq(x, 1, n)) ELSE r.node,
              !.y = x,
              !.sys.STORAGE = XAdd(r.sys.STORAGE, x[3])]

RECURSIVE saveNodeLoop(_, _, _, _, _, _, _)
saveNodeLoop(r, j, N, flags, f, n, IgnoreQuality) ==
    IF j > Len(N) THEN r
    ELSE saveNodeLoop(saveNodeOne(r, flags[j],
                                  node_getResults(N[j], f, r.y, IgnoreQuality), n),
                      j + 1, N, flags, f, n, IgnoreQuality)

\* lines 597-608: the flows of the routing step (massbal.c)
saveNodeSys(r, totals) ==
    [r EXCEPT
       !.sys.FLOODING = XMul(totals.flooding, UCF("FLOW")),
       !.sys.OUTFLOW = XMul(totals.outflow, UCF("FLOW")),
       !.sys.DWFLOW = XMul(totals.dwInflow, UCF("FLOW")),
       !.sys.GWFLOW = XMul(totals.gwInflow, UCF("FLOW")),
       !.sys.IIFLOW = XMul(totals.iiInflow, UCF("FLOW")),
       !.sys.EXFLOW = XMul(totals.exInflow, UCF("FLOW")),
       !.sys.INFLOW = XAdd(XAdd(XAdd(XAdd(r.sys.RUNOFF,
                                          XMul(totals.dwInflow, UCF("FLOW"))),
                                     XMul(totals.gwInflow, UCF("FLOW"))),
                                XMul(totals.iiInflow, UCF("FLOW"))),
                           XMul(totals.exInflow, UCF("FLOW")))]

\* output_saveNodeResults (output.c 566-609) at the weight f
output_saveNodeResults(r, N, flags, f, n, opt) ==
    saveNodeSys(saveNodeLoop([r EXCEPT !.y = r.o.NodeResults],
                             1, N, flags, f, n, opt.IgnoreQuality),
                opt.StepFlowTotals)

\* lines 632-642 for link j, whose results are x
saveLinkOne(r, l, flag, x, n) ==
    [r EXCEPT !.F = IF flag THEN fwrite(r.F, floatsBytes(x, n)) ELSE r.F,
              !.link = IF flag THEN Append(r.link, SubSeq(x, 1, n)) ELSE r.link,
              !.z = x,
              !.sys.STORAGE = XAdd(r.sys.STORAGE, XMul(l.newVolume, UCF("VOLUME")))]

\* output_saveLinkResults (output.c 613-643) at the weight f
RECURSIVE output_saveLinkResults(_, _, _, _, _, _, _)
output_saveLinkResults(r, j, L, flags, f, n, IgnoreQuality) ==
    IF j > Len(L) THEN r
    ELSE output_saveLinkResults(
           saveLinkOne(r, L[j], flags[j],
                       link_getResults(L[j], f, r.z, IgnoreQuality), n),
           j + 1, L, flags, f, n, IgnoreQuality)

\* the system results in the order of their codes (enums.h)
SysOrder == <<"TEMPERATURE", "RAINFALL", "SNOWDEPTH", "INFIL", "RUNOFF", "DWFLOW",
              "GWFLOW", "IIFLOW", "EXFLOW", "INFLOW", "FLOODING", "OUTFLOW",
              "STORAGE", "EVAP", "PET">>

SysZero == [c \in {SysOrder[k] : k \in 1..MAX_SYS_RESULTS} |-> 0]

\* lines 422-424: the record starts with its date
saveStart(F, o, date) ==
    [F |-> fwrite(F, DoubleBytes(date * UNIT)), o |-> o, sys |-> SysZero,
     x |-> o.SubcatchResults, y |-> o.NodeResults, z |-> o.LinkResults,
     totalArea |-> 0, pos |-> F.pos, date |-> date,
     sub |-> <<>>, node |-> <<>>, link |-> <<>>]

saveSubcatchPart(r, S, G, Rpt, fRunoff, opt) ==
    IF Len(S) > 0
    THEN output_saveSubcatchResults(r, S, G, Rpt.SUBCATCH, fRunoff,
                                    r.o.NsubcatchResults, opt)
    ELSE r

saveNodePart(r, N, Rpt, fRouting, opt) ==
    IF Len(N) > 0
    THEN output_saveNodeResults(r, N, Rpt.NODE, fRouting, r.o.NnodeResults, opt)
    ELSE r

saveLinkPart(r, L, Rpt, fRouting, opt) ==
    IF Len(L) > 0
    THEN output_saveLinkResults(r, 1, L, Rpt.LINK, fRouting, r.o.NlinkResults,
                                opt.IgnoreQuality)
    ELSE r

\* lines 431-434: the system results end the record, which is counted
saveEnd(r) ==
    [F |-> fwrite(r.F, floatsBytes([k \in 1..MAX_SYS_RESULTS |-> r.sys[SysOrder[k]]],
                                   MAX_SYS_RESULTS)),
     o |-> [r.o EXCEPT
              !.SubcatchResults = r.x, !.NodeResults = r.y, !.LinkResults = r.z,
              !.SysResults = [k \in 1..MAX_SYS_RESULTS |-> r.sys[SysOrder[k]]],
              !.Nperiods = r.o.Nperiods + 1,
              !.saved = Append(r.o.saved,
                               [pos |-> r.pos, date |-> r.date, sub |-> r.sub,
                                node |-> r.node, link |-> r.link])]]

\* output_saveResults (output.c 407-435) for a report date that is not before
\* ReportStart; the outlet results of iface_saveOutletResults go to another
\* file
outputRecord(F, o, opt, S, G, N, L, Rpt, date, fRunoff, fRouting) ==
    saveEnd(saveLinkPart(saveNodePart(saveSubcatchPart(saveStart(F, o, date),
                                                       S, G, Rpt, fRunoff, opt),
                                      N, Rpt, fRouting, opt),
                         L, Rpt, fRouting, opt))

\* output_saveResults (output.c 407-435) at the report time reportTime, which
\* the driver moves on by one reporting step from call to call
output_saveResults ==
    /\ otpt.pc = "open"
    /\ otpt.calls < MaxSaves
    /\ \E reportTime \in {otpt.calls * 1000 * sp.ReportStep} :
         IF getDateTime(sp, reportTime) < sp.ReportStart
         THEN /\ otpt' = [otpt EXCEPT !.calls = otpt.calls + 1]
              /\ UNCHANGED <<Fout, Gage>>
         ELSE \E G \in {[g \in DOMAIN Gage |->
                          IF Len(Subcatch) > 0
                          THEN gage_setReportRainfall(Gage[g],
                                                      getDateTime(sp, reportTime))
                          ELSE Gage[g]]} :
              \E r \in {outputRecord(Fout, otpt, sp, Subcatch, G, Node, Link, RptFlag,
                                     getDateTime(sp, reportTime),
                                     reportWeight(reportTime, OldRunoffTime,
                                                  NewRunoffTime),
                                     reportWeight(reportTime, sp.OldRoutingTime,
                                                  sp.NewRoutingTime))} :
                /\ Fout' = r.F
                /\ otpt' = [r.o EXCEPT !.calls = otpt.calls + 1]
                /\ Gage' = G
    /\ UNCHANGED <<ErrorCode, Node, Link, routeVars, projVars, fileVars,
                   OldRunoffTime, NewRunoffTime, Outfall, sp, tick, RptFlag>>

\* output_end (output.c 439-462): the closing record; error_getCode (error.c)
\* gives the number of the error
output_end ==
    /\ otpt.pc = "open"
    /\ Fout' = fwrite(Fout, IntBytes(otpt.IDStartPos) \o IntBytes(otpt.InputStartPos)
                            \o IntBytes(otpt.OutputStartPos)
                            \o IntBytes(otpt.Nperiods) \o IntBytes(ErrorCode)
                            \o IntBytes(MAGICNUMBER))
    /\ otpt' = [otpt EXCEPT !.pc = "ended"]
    /\ UNCHANGED <<ErrorCode, Node, Link, routeVars, projVars, fileVars, runoffVars,
                   RptFlag>>

\* fseek(f, pos, SEEK_SET)
fseek(F, pos) == [F EXCEPT !.pos = pos, !.eof = FALSE]

\* fread of one double into a variable that holds cur
freadDouble(F, cur) ==
    IF Len(F.data) - F.pos >= 8
    THEN DoubleValue(SubSeq(F.data, F.pos + 1, F.pos + 8))
    ELSE cur

\* the position of a record counted from 0: the first record is not found
periodPos_FromZero(o, period) == o.OutputStartPos + period * o.BytesPerPeriod

\* the position of period's record (output.c 659, 681, 702, 724)
periodPos(o, period) == o.OutputStartPos + (period - 1) * o.BytesPerPeriod

\* output_readDateTime (output.c 647-663), output_readSubcatchResults
\* (667-685), output_readNodeResults (689-707) and output_readLinkResults
\* (711-731), as the report writer calls them when the run has ended, for a
\* period of the run and the index of a reported object (report.c 1102-1112,
\* 1228-1238, 1310-1320)
readDate(F, o, period) ==
    [F |-> [fseek(F, periodPos(o, period))
              EXCEPT !.pos = MIN(Len(F.data), periodPos(o, period) + 8),
                     !.eof = Len(F.data) - periodPos(o, period) < 8],
     o |-> [o EXCEPT !.days = freadDouble(fseek(F, periodPos(o, period)), NO_DATE)]]

output_readDateTime ==
    /\ otpt.pc = "ended" /\ otpt.reads < MaxReads
    /\ \E period \in 1..otpt.Nperiods :
       \E r \in {readDate(Fout, otpt, period)} :
         /\ Fout' = r.F
         /\ otpt' = [r.o EXCEPT !.last = [op |-> "readDateTime", period |-> period,
                                          index |-> 0],
                                !.reads = otpt.reads + 1]
    /\ UNCHANGED <<ErrorCode, Node, Link, routeVars, projVars, fileVars, runoffVars,
                   RptFlag>>

output_readSubcatchResults ==
    /\ otpt.pc = "ended" /\ otpt.reads < MaxReads
    /\ \E period \in 1..otpt.Nperiods, index \in 0..(otpt.NumSubcatch - 1) :
       \E r \in {freadFloats(fseek(Fout, periodPos(otpt, period) + 8
                                         + index * otpt.NsubcatchResults * 4),
                             otpt.SubcatchResults, otpt.NsubcatchResults)} :
         /\ Fout' = r.f
         /\ otpt' = [otpt EXCEPT !.SubcatchResults = r.x,
                                 !.last = [op |-> "readSubcatchResults",
                                           period |-> period, index |-> index],
                                 !.reads = otpt.reads + 1]
    /\ UNCHANGED <<ErrorCode, Node, Link, routeVars, projVars, fileVars, runoffVars,
                   RptFlag>>

output_readNodeResults ==
    /\ otpt.pc = "ended" /\ otpt.reads < MaxReads
    /\ \E period \in 1..otpt.Nperiods, index \in 0..(otpt.NumNodes - 1) :
       \E r \in {freadFloats(fseek(Fout, periodPos(otpt, period) + 8
                                         + otpt.NumSubcatch * otpt.NsubcatchResults * 4
                                         + index * otpt.NnodeResults * 4),
                             otpt.NodeResults, otpt.NnodeResults)} :
         /\ Fout' = r.f
         /\ otpt' = [otpt EXCEPT !.NodeResults = r.x,
                                 !.last = [op |-> "readNodeResults",
                                           period |-> period, index |-> index],
                                 !.reads = otpt.reads + 1]
    /\ UNCHANGED <<ErrorCode, Node, Link, routeVars, projVars, fileVars, runoffVars,
                   RptFlag>>

\* lines 724-730: the link results and, behind them, the system results
readLink(F, o, pos) ==
    [link |-> freadFloats(fseek(F, pos), o.LinkResults, o.NlinkResults),
     sys |-> freadFloats(freadFloats(fseek(F, pos), o.LinkResults, o.NlinkResults).f,
                         o.SysResults, MAX_SYS_RESULTS)]

output_readLinkResults ==
    /\ otpt.pc = "ended" /\ otpt.reads < MaxReads
    /\ \E period \in 1..otpt.Nperiods, index \in 0..(otpt.NumLinks - 1) :
       \E r \in {readLink(Fout, otpt, periodPos(otpt, period) + 8
                                      + otpt.NumSubcatch * otpt.NsubcatchResults * 4
                                      + otpt.NumNodes * otpt.NnodeResults * 4
                                      + index * otpt.NlinkResults * 4)} :
         /\ Fout' = r.sys.f
         /\ otpt' = [otpt EXCEPT !.LinkResults = r.link.x, !.SysResults = r.sys.x,
                                 !.last = [op |-> "readLinkResults",
                                           period |-> period, index |-> index],
                                 !.reads = otpt.reads + 1]
    /\ UNCHANGED <<ErrorCode, Node, Link, routeVars, projVars, fileVars, runoffVars,
                   RptFlag>>

\* the project of the output file: the subcatchments of the runoff steps with
\* runoff, two nodes and two links, each with results of its own
OutSubcatch(nPollut) ==
    [j \in 1..3 |->
       [StepSubcatch(nPollut)[j] EXCEPT
          !.oldRunoff = IF j = 3 THEN 0 ELSE j * UNIT,
          !.newRunoff = IF j = 3 THEN 0 ELSE 3 * j * UNIT,
          !.evapLoss = j, !.infilLoss = 2 * j,
          !.oldQual = [p \in 1..nPollut |-> j * UNIT],
          !.newQual = [p \in 1..nPollut |-> 2 * j * UNIT]]]

OutNodes(nPollut) ==
    <<[NodeRec("STORAGE", 5 * UNIT, 5 * UNIT, 0, 0, 0)
         EXCEPT !.newVolume = 6 * UNIT, !.newDepth = 6 * UNIT,
                !.newLatFlow = UNIT, !.newQual = [p \in 1..nPollut |-> 7 * UNIT]],
      [NodeRec("OUTFALL", 0, 3 * UNIT, 0, 0, 0)
         EXCEPT !.newDepth = 2 * UNIT, !.overflow = UNIT \div 2,
                !.newQual = [p \in 1..nPollut |-> 8 * UNIT]]>>

OutLinks(nPollut) ==
    <<[LinkRec("CONDUIT", "CIRCULAR", 1, 2, 1, 0)
         EXCEPT !.newFlow = 4 * UNIT, !.newDepth = UNIT, !.newVolume = 9 * UNIT,
                !.newQual = [p \in 1..nPollut |-> 5 * UNIT]],
      [LinkRec("PUMP", "NONE", 1, 2, 1, 0)
         EXCEPT !.newFlow = 2 * UNIT, !.newDepth = UNIT \div 4,
                !.newQual = [p \in 1..nPollut |-> 3 * UNIT]]>>

\* which objects are reported on: all, none, some of each kind
RptMixes ==
    {[SUBCATCH |-> <<TRUE, TRUE, TRUE>>, NODE |-> <<TRUE, TRUE>>,
      LINK |-> <<TRUE, TRUE>>],
     [SUBCATCH |-> <<FALSE, FALSE, FALSE>>, NODE |-> <<FALSE, FALSE>>,
      LINK |-> <<FALSE, FALSE>>],
     [SUBCATCH |-> <<TRUE, FALSE, TRUE>>, NODE |-> <<FALSE, TRUE>>,
      LINK |-> <<FALSE, FALSE>>],
     [SUBCATCH |-> <<FALSE, TRUE, FALSE>>, NODE |-> <<TRUE, FALSE>>,
      LINK |-> <<FALSE, TRUE>>]}

\* the options of the output file: the run starts at second 5 and reports
\* each second, from its start or from second 6 on
OutOptions(IgnoreQuality, ReportStart) ==
    [IgnoreQuality |-> IgnoreQuality, StartDateTime |-> 5, ReportStart |-> ReportStart,
     ReportStep |-> 1, TotalDuration |-> 2000, RptFlags |-> "ALL",
     OldRoutingTime |-> 0, NewRoutingTime |-> 2000,
     Temp |-> 70 * UNIT, Evap |-> [rate |-> 1, dryOnly |-> FALSE],
     StepFlowTotals |-> [flooding |-> 1, outflow |-> 2, dwInflow |-> 3,
                         gwInflow |-> 4, iiInflow |-> 5, exInflow |-> 6]]

\* the output files: with a name, without one, and one that cannot be opened
OutFiles == {OutFile("out", TRUE), OutFile("", TRUE), OutFile("out", FALSE)}

InitOutput ==
    /\ layout = LayoutIdle
    /\ ErrorCode = ERR_NONE
    /\ AllowPonding = FALSE
    /\ sortedLinks = <<1, 2>>
    /\ rt = RouteIdle
    /\ FlowUnits = 0
    /\ FileVersion = 0
    /\ Fhotstart1 = NoFile /\ Fhotstart2 = NoFile /\ Frunoff = NoFile
    /\ RunoffShared = RunoffIdle
    /\ hot = HotIdle
    /\ OldRunoffTime = 0 /\ NewRunoffTime = 2000
    /\ tick = TickIdle
    /\ Gage = StepGage(<<10, 0>>)
    /\ otpt = OutputIdle
    /\ Fout \in OutFiles
    /\ \E nSubcatch \in {0, 3}, nPollut \in {0, 1} :
         /\ Nobjects = [SUBCATCH |-> nSubcatch, LANDUSE |-> 0, NODE |-> 2, LINK |-> 2,
                        POLLUT |-> nPollut]
         /\ Subcatch = SubSeq(OutSubcatch(nPollut), 1, nSubcatch)
         /\ Node = OutNodes(nPollut)
         /\ Link = OutLinks(nPollut)
         /\ Outfall = <<[StepOutfall(nPollut)[1] EXCEPT !.routeTo = 0]>>
         /\ \E mix \in RptMixes :
              RptFlag = [mix EXCEPT !.SUBCATCH = SubSeq(mix.SUBCATCH, 1, nSubcatch)]
    /\ \E IgnoreQuality \in BOOLEAN, ReportStart \in {5, 6} :
         sp = OutOptions(IgnoreQuality, ReportStart)

NextOutput ==
    \/ output_open
    \/ output_saveResults
    \/ output_end
    \/ output_readDateTime
    \/ output_readSubcatchResults
    \/ output_readNodeResults
    \/ output_readLinkResults

SpecOutput == InitOutput /\ [][NextOutput]_vars

-----------------------------------------------------------------------------
(* flowrout.c: flowrout_init, the validation of the layout and the initial *)
(* state of nodes and links.  Node[].degree, the number of links that      *)
(* leave a node, is Degree; every link runs from node1 to node2            *)
(* (direction = 1), no node has a user-supplied initial depth and no       *)
(* conduit an initial flow q0.  An error that is reported is the triple of *)
(* its code, the kind of object and the object's index.                    *)

\* lines 209-239: the test of node j
treeNodeErrors(N, L, j) ==
    CASE N[j].type = "DIVIDER" ->
           IF Degree(L, j) > 2 THEN <<<<ERR_DIVIDER, "NODE", j>>>> ELSE <<>>
      [] N[j].type = "OUTFALL" ->
           IF Degree(L, j) > 0 THEN <<<<ERR_OUTFALL, "NODE", j>>>> ELSE <<>>
      [] N[j].type = "STORAGE" -> <<>>
      [] OTHER ->
           IF Degree(L, j) > 1 THEN <<<<ERR_MULTI_OUTLET, "NODE", j>>>> ELSE <<>>

\* the test of link j without the exemption of the dummy conduit
treeLinkErrors_NoDummyTest(N, L, j) ==
    CASE L[j].type = "CONDUIT" ->
           IF L[j].slope < 0 THEN <<<<ERR_SLOPE, "LINK", j>>>> ELSE <<>>
      [] L[j].type \in {"ORIFICE", "WEIR", "OUTLET"} ->
           IF N[L[j].node1].type # "STORAGE"
           THEN <<<<ERR_REGULATOR, "LINK", j>>>> ELSE <<>>
      [] OTHER -> <<>>

\* lines 242-264: the test of link j
treeLinkErrors(N, L, j) ==
    CASE L[j].type = "CONDUIT" ->
           IF L[j].slope < 0 /\ L[j].xsect # "DUMMY"
           THEN <<<<ERR_SLOPE, "LINK", j>>>> ELSE <<>>
      [] L[j].type \in {"ORIFICE", "WEIR", "OUTLET"} ->
           IF N[L[j].node1].type # "STORAGE"
           THEN <<<<ERR_REGULATOR, "LINK", j>>>> ELSE <<>>
      [] OTHER -> <<>>

\* validateTreeLayout (flowrout.c 198-265): the errors in the order in which
\* they are reported
validateTreeLayout(N, L) ==
    Concat([j \in 1..Len(N) |-> treeNodeErrors(N, L, j)])
    \o Concat([j \in 1..Len(L) |-> treeLinkErrors(N, L, j)])

\* lines 290-292: the node that counts link l as an inflow link
inflowNode(N, l) == IF N[l.node1].type # "OUTFALL" THEN l.node2 ELSE l.node1

\* Node[i].inflow after the loop of lines 284-303
inflowCount(N, L, i) == Cardinality({j \in DOMAIN L : inflowNode(N, L[j]) = i})

\* lines 296-297: a dummy conduit or an ideal pump
isDummyLink(l) ==
    \/ l.type = "CONDUIT" /\ l.xsect = "DUMMY"
    \/ l.type = "PUMP" /\ l.pumpType = "IDEAL_PUMP"

\* the test of link j for dummy conduits alone
generalLinkErrors_ConduitOnly(N, L, j) ==
    IF L[j].type = "CONDUIT" /\ L[j].xsect = "DUMMY" /\ Degree(L, L[j].node1) > 1
    THEN <<<<ERR_DUMMY_LINK, "NODE", L[j].node1>>>> ELSE <<>>

\* lines 294-302: the test of link j
generalLinkErrors(N, L, j) ==
    IF isDummyLink(L[j]) /\ Degree(L, L[j].node1) > 1
    THEN <<<<ERR_DUMMY_LINK, "NODE", L[j].node1>>>> ELSE <<>>

\* lines 307-318: the test of node i
generalNodeErrors(N, L, i) ==
    IF N[i].type = "OUTFALL" /\ Degree(L, i) + inflowCount(N, L, i) > 1
    THEN <<<<ERR_OUTFALL, "NODE", i>>>> ELSE <<>>

\* every node counts as an outlet
outletCount_AllNodes(N, L) == Len(N)

\* lines 307-318: the outfalls with at most one link
outletCount(N, L) ==
    Cardinality({i \in DOMAIN N : /\ N[i].type = "OUTFALL"
                                  /\ Degree(L, i) + inflowCount(N, L, i) <= 1})

\* validateGeneralLayout (flowrout.c 269-328): the errors reported, the
\* degree of each node, negated for a node without inflow links, and the
\* nodes with their inflow back at zero
validateGeneralLayout(N, L) ==
    [errors |-> Concat([j \in 1..Len(L) |-> generalLinkErrors(N, L, j)])
                \o Concat([i \in 1..Len(N) |-> generalNodeErrors(N, L, i)])
                \o (IF outletCount(N, L) = 0
                    THEN <<<<ERR_NO_OUTLETS, "", 0>>>> ELSE <<>>),
     degree |-> [i \in 1..Len(N) |->
                   IF inflowCount(N, L, i) = 0 THEN 0 - Degree(L, i)
                   ELSE Degree(L, i)],
     Node |-> [i \in 1..Len(N) |-> [N[i] EXCEPT !.inflow = 0]]]

\* the sum of f[j] over the indices j of the set s
RECURSIVE SumOver(_, _)
SumOver(f, s) ==
    IF s = {} THEN 0
    ELSE f[CHOOSE j \in s : \A k \in s : j <= k]
         + SumOver(f, s \ {CHOOSE j \in s : \A k \in s : j <= k})

\* lines 354-356: the depth that link l adds to its end nodes
linkEndDepth(l) == IF l.newDepth > FUDGE THEN l.newDepth + l.offset1 ELSE 0

\* initNodeDepths (flowrout.c 332-380): the depth of a node that is neither
\* outfall nor storage is the mean over its links; link_setOutfallDepth
\* (link.c) leaves the outfalls of the model as they are
initNodeDepths(N, L) ==
    [i \in 1..Len(N) |->
       IF \/ N[i].type \in {"OUTFALL", "STORAGE"}
          \/ {j \in DOMAIN L : L[j].node1 = i \/ L[j].node2 = i} = {}
       THEN [N[i] EXCEPT !.inflow = SumOver([j \in DOMAIN L |-> linkEndDepth(L[j])],
                                            {j \in DOMAIN L : L[j].node1 = i
                                                              \/ L[j].node2 = i}),
                         !.outflow = Cardinality({j \in DOMAIN L :
                                                    L[j].node1 = i \/ L[j].node2 = i})]
       ELSE [N[i] EXCEPT !.inflow = SumOver([j \in DOMAIN L |-> linkEndDepth(L[j])],
                                            {j \in DOMAIN L : L[j].node1 = i
                                                              \/ L[j].node2 = i}),
                         !.outflow = Cardinality({j \in DOMAIN L :
                                                    L[j].node1 = i \/ L[j].node2 = i}),
                         !.newDepth =
                             SumOver([j \in DOMAIN L |-> linkEndDepth(L[j])],
                                     {j \in DOMAIN L : L[j].node1 = i \/ L[j].node2 = i})
                             \div Cardinality({j \in DOMAIN L :
                                                 L[j].node1 = i \/ L[j].node2 = i})]]

\* initLinkDepths (flowrout.c 384-416): the depth of a conduit is the mean of
\* the depths at its ends
initLinkDepths(N, L) ==
    [i \in 1..Len(L) |->
       IF L[i].type = "CONDUIT"
       THEN [L[i] EXCEPT !.newDepth =
               MAX((MIN(MAX(N[L[i].node1].newDepth - L[i].offset1, 0), L[i].yFull)
                    + MIN(MAX(N[L[i].node2].newDepth - L[i].offset2, 0), L[i].yFull))
                   \div 2,
                   FUDGE)]
       ELSE L[i]]

\* node_getVolume (node.c): a storage unit is a prismatic tank, any other
\* node holds nothing
node_getVolume(n, d) == IF n.type = "STORAGE" THEN n.area * d ELSE 0

\* initNodes (flowrout.c 422-465)
initNodes(N, L, ponding) ==
    [i \in 1..Len(N) |->
       [N[i] EXCEPT
          !.inflow = N[i].newLatFlow
                     + SumOver([j \in DOMAIN L |-> ABS(L[j].newFlow)],
                               {j \in DOMAIN L :
                                  \/ L[j].newFlow >= 0 /\ L[j].node2 = i
                                  \/ L[j].newFlow < 0 /\ L[j].node1 = i}),
          !.outflow = SumOver([j \in DOMAIN L |-> ABS(L[j].newFlow)],
                              {j \in DOMAIN L :
                                 \/ L[j].newFlow >= 0 /\ L[j].node1 = i
                                 \/ L[j].newFlow < 0 /\ L[j].node2 = i}),
          !.newVolume =
              IF ponding /\ N[i].pondedArea > 0 /\ N[i].newDepth > N[i].fullDepth
              THEN N[i].fullVolume
                   + (N[i].newDepth - N[i].fullDepth) * N[i].pondedArea
              ELSE node_getVolume(N[i], N[i].newDepth)]]

\* xsect_getAofY (xsect.c): monotone, onto [0, aFull]
xsect_getAofY(l, y) ==
    IF y <= 0 THEN 0
    ELSE IF y >= l.yFull THEN l.aFull
    ELSE (y * (l.aFull \div UNIT)) \div (l.yFull \div UNIT)

\* initLinks (flowrout.c 471-506); the links of the model have no old volume
initLinks(L, routingModel) ==
    [i \in 1..Len(L) |->
       IF routingModel = "SF" THEN [L[i] EXCEPT !.newFlow = 0]
       ELSE IF L[i].type = "CONDUIT"
       THEN [L[i] EXCEPT
               !.q1 = L[i].newFlow \div L[i].barrels,
               !.q2 = L[i].newFlow \div L[i].barrels,
               !.a1 = xsect_getAofY(L[i], L[i].newDepth),
               !.a2 = xsect_getAofY(L[i], L[i].newDepth),
               !.newVolume = xsect_getAofY(L[i], L[i].newDepth) * link_getLength(L[i])
                             * L[i].barrels]
       ELSE L[i]]

\* lines 78-91: the validation of the layout and, for dynamic wave routing
\* without a hot start file, the initial depths; dynwave_init (dynwave.c)
\* touches no node and no link
initValidated(N, L, routingModel, hotMode) ==
    IF routingModel # "DW"
    THEN [errors |-> validateTreeLayout(N, L),
          degree |-> [i \in 1..Len(N) |-> Degree(L, i)], Node |-> N, Link |-> L]
    ELSE IF hotMode # "NO_FILE"
    THEN [errors |-> validateGeneralLayout(N, L).errors,
          degree |-> validateGeneralLayout(N, L).degree,
          Node |-> validateGeneralLayout(N, L).Node, Link |-> L]
    ELSE [errors |-> validateGeneralLayout(N, L).errors,
          degree |-> validateGeneralLayout(N, L).degree,
          Node |-> initNodeDepths(validateGeneralLayout(N, L).Node, L),
          Link |-> initLinkDepths(initNodeDepths(validateGeneralLayout(N, L).Node, L),
                                  L)]

\* flowrout_init (flowrout.c 71-99); report_writeErrorMsg (report.c 1389)
\* makes each error that is reported the error code
flowrout_init ==
    /\ layout.pc = "new"
    /\ \E v \in {initValidated(Node, Link, rt.model, Fhotstart1.mode)} :
         /\ ErrorCode' = IF v.errors = <<>> THEN ErrorCode
                         ELSE v.errors[Len(v.errors)][1]
         /\ Node' = initNodes(v.Node, v.Link, AllowPonding)
         /\ Link' = initLinks(v.Link, rt.model)
         /\ layout' = [pc |-> "done", errors |-> v.errors, degree |-> v.degree,
                       entry |-> ErrorCode]
    /\ UNCHANGED <<AllowPonding, sortedLinks, rt, projVars, fileVars, runoffVars,
                   outVars>>

\* the networks that are validated: three nodes; link 1 from node 1 to node
\* 2, link 2 from node 1 or 2 to node 3 and, if there is one, link 3 between
\* nodes 1 and 3
InitLink(type, xsect, n1, n2, slope, pumpType, flow) ==
    [LinkRec(type, xsect, n1, n2, 1, 0) EXCEPT !.slope = slope, !.newFlow = flow,
                                               !.newDepth = flow \div 4]
    @@ [pumpType |-> pumpType]

InitLinkKinds ==
    {<<"CONDUIT", "CIRCULAR", 1, "">>, <<"CONDUIT", "CIRCULAR", 0 - 1, "">>,
     <<"CONDUIT", "DUMMY", 0 - 1, "">>, <<"PUMP", "NONE", 1, "IDEAL_PUMP">>,
     <<"PUMP", "NONE", 1, "TYPE1_PUMP">>, <<"ORIFICE", "NONE", 1, "">>}

InitFlowrout ==
    /\ OutputAtRest
    /\ ErrorCode = ERR_NONE
    /\ AllowPonding \in BOOLEAN
    /\ \E t1 \in {"JUNCTION", "STORAGE", "DIVIDER"}, t2 \in {"JUNCTION", "STORAGE"},
          t3 \in {"OUTFALL", "JUNCTION"} :
         Node = <<[NodeRec(t1, 0, 0, 0, 0, 10) EXCEPT !.newDepth = 12 * UNIT,
                                                      !.newLatFlow = UNIT],
                  NodeRec(t2, 0, 0, 0, 0, 0),
                  NodeRec(t3, 0, 0, 0, 0, 0)>>
    /\ \E k1 \in InitLinkKinds,
          k2 \in {<<"CONDUIT", "CIRCULAR", 1, "">>, <<"OUTLET", "NONE", 1, "">>},
          k3 \in {<<"CONDUIT", "CIRCULAR", 1, "">>, <<"PUMP", "NONE", 1, "IDEAL_PUMP">>} :
       \E a \in {1, 2}, b \in {<<1, 3>>, <<3, 1>>} :
       \E nLinks \in {2, 3} :
         /\ Link = SubSeq(<<InitLink(k1[1], k1[2], 1, 2, k1[3], k1[4], 4 * UNIT),
                            InitLink(k2[1], k2[2], a, 3, k2[3], k2[4], 0),
                            InitLink(k3[1], k3[2], b[1], b[2], k3[3], k3[4],
                                     0 - 2 * UNIT)>>,
                          1, nLinks)
         /\ sortedLinks = [j \in 1..nLinks |-> j]
    /\ \E m \in {"SF", "KW", "DW"} : rt = [RouteIdle EXCEPT !.model = m]
    /\ Nobjects = [SUBCATCH |-> 0, LANDUSE |-> 0, NODE |-> Len(Node),
                   LINK |-> Len(Link), POLLUT |-> 0]
    /\ FlowUnits = 0
    /\ Subcatch = <<>>
    /\ Fhotstart1 \in {NoFile, FileRec("USE_FILE", TRUE, <<>>)}
    /\ Fhotstart2 = NoFile /\ Frunoff = NoFile
    /\ FileVersion = 0
    /\ RunoffShared = RunoffIdle
    /\ hot = HotIdle
    /\ RunoffAtRest
    /\ layout = LayoutIdle

NextFlowrout == flowrout_init

SpecFlowrout == InitFlowrout /\ [][NextFlowrout]_vars

-----------------------------------------------------------------------------
(* Properties of the binary output file.                                   *)

\* the floats of a result vector as they are read back from the file
AsFloats(x) == [m \in 1..Len(x) |-> FloatRead(FloatWrite(x[m]))]

\* the report has just read period p for the reported object of index k
JustRead(op) ==
    /\ otpt.pc = "ended"
    /\ otpt.last.op = op
    /\ otpt.last.period \in 1..otpt.Nperiods

\* C12: for every saved period p in 1..Nperiods and every index k among the
\* reported objects, output_readSubcatchResults, output_readNodeResults and
\* output_readLinkResults leave in their buffer exactly the result vector
\* that output_saveResults wrote for the k-th reported subcatchment, node or
\* link in the p-th record, and output_readDateTime returns that record's
\* date, for any mix of reported and unreported objects and any pollutant
\* count
C12_ReadBackExact ==
    /\ JustRead("readDateTime") =>
           otpt.days = otpt.saved[otpt.last.period].date * UNIT
    /\ JustRead("readSubcatchResults") =>
           otpt.SubcatchResults
             = AsFloats(otpt.saved[otpt.last.period].sub[otpt.last.index + 1])
    /\ JustRead("readNodeResults") =>
           otpt.NodeResults
             = AsFloats(otpt.saved[otpt.last.period].node[otpt.last.index + 1])
    /\ JustRead("readLinkResults") =>
           otpt.LinkResults
             = AsFloats(otpt.saved[otpt.last.period].link[otpt.last.index + 1])

\* the second reported node, node 2, of the second period was read from a
\* file with two reported subcatchments and a pollutant
C12_Witness ==
    /\ JustRead("readNodeResults")
    /\ otpt.last.period = 2 /\ otpt.last.index = 0
    /\ RptFlag.NODE = <<FALSE, TRUE>> /\ otpt.NumSubcatch = 2
    /\ otpt.NumPolluts = 1
    /\ otpt.NodeResults = <<2 * UNIT, 2 * UNIT, 0, 0, 3 * UNIT, UNIT \div 2, 8 * UNIT>>

\* the calls of output_saveResults so far whose report date was not before
\* ReportStart
CountedCalls ==
    Cardinality({c \in 0..(otpt.calls - 1) :
                   getDateTime(sp, c * 1000 * sp.ReportStep) >= sp.ReportStart})

\* C13: the output file is the header that output_open wrote, then one
\* record of exactly BytesPerPeriod bytes for each call of output_saveResults
\* whose report date is not before ReportStart, then the closing record of
\* output_end; the period count in the closing record is the number of
\* records appended; a call with an earlier report date appends nothing and
\* is not counted
C13_StreamLayout ==
    otpt.pc \in {"open", "ended"} =>
        /\ BytesInt(SubSeq(Fout.data, 1, 4)) = MAGICNUMBER
        /\ otpt.Nperiods = CountedCalls
        /\ Len(otpt.saved) = otpt.Nperiods
        /\ \A p \in 1..otpt.Nperiods :
             otpt.saved[p].pos = otpt.OutputStartPos + (p - 1) * otpt.BytesPerPeriod
        /\ Len(Fout.data) = otpt.OutputStartPos + otpt.Nperiods * otpt.BytesPerPeriod
                            + (IF otpt.pc = "ended" THEN 24 ELSE 0)
        /\ otpt.pc = "ended" =>
             /\ BytesInt(SubSeq(Fout.data, Len(Fout.data) - 11, Len(Fout.data) - 8))
                  = CountedCalls
             /\ BytesInt(SubSeq(Fout.data, Len(Fout.data) - 3, Len(Fout.data)))
                  = MAGICNUMBER
             /\ BytesInt(SubSeq(Fout.data, Len(Fout.data) - 15, Len(Fout.data) - 12))
                  = otpt.OutputStartPos

\* three calls, the first before ReportStart, and the closing record
C13_Witness ==
    /\ otpt.pc = "ended"
    /\ otpt.calls = 3 /\ otpt.Nperiods = 2 /\ sp.ReportStart = 6
    /\ otpt.NumSubcatch = 1 /\ otpt.NumLinks = 1 /\ otpt.NumPolluts = 1
    /\ otpt.BytesPerPeriod = 8 + 4 * 9 + 4 * 7 + 4 * 6 + 4 * 15

-----------------------------------------------------------------------------
(* Properties of flowrout_init.                                            *)

\* flowrout_init has returned for a routing model of the set
Initialized(models) == layout.pc = "done" /\ rt.model \in models

\* the error code was reported by flowrout_init
layoutReported(code) == \E k \in DOMAIN layout.errors : layout.errors[k][1] = code

\* the number of outlet links of node n
Outlets(n) == Cardinality({j \in DOMAIN Link : Link[j].node1 = n})

\* C14: validateTreeLayout (steady flow and kinematic wave routing) reports
\* a topology error if and only if some node or link violates a rule of the
\* tree layout: ERR_DIVIDER for a divider with more than 2 outlet links,
\* ERR_OUTFALL for an outfall with an outlet link, ERR_MULTI_OUTLET for any
\* other node but a storage node with more than 1 outlet link, ERR_SLOPE for
\* a conduit that is not DUMMY with a negative slope, ERR_REGULATOR for an
\* orifice, weir or outlet whose upstream node is not a storage node; a
\* layout with no violation leaves ErrorCode as it was
C14_TreeLayoutIff ==
    Initialized({"SF", "KW"}) =>
        /\ layoutReported(ERR_DIVIDER) <=>
             \E n \in DOMAIN Node : Node[n].type = "DIVIDER" /\ Outlets(n) > 2
        /\ layoutReported(ERR_OUTFALL) <=>
             \E n \in DOMAIN Node : Node[n].type = "OUTFALL" /\ Outlets(n) > 0
        /\ layoutReported(ERR_MULTI_OUTLET) <=>
             \E n \in DOMAIN Node :
                 /\ Node[n].type \notin {"DIVIDER", "OUTFALL", "STORAGE"}
                 /\ Outlets(n) > 1
        /\ layoutReported(ERR_SLOPE) <=>
             \E j \in DOMAIN Link :
                 /\ Link[j].type = "CONDUIT" /\ Link[j].xsect # "DUMMY"
                 /\ Link[j].slope < 0
        /\ layoutReported(ERR_REGULATOR) <=>
             \E j \in DOMAIN Link :
                 /\ Link[j].type \in {"ORIFICE", "WEIR", "OUTLET"}
                 /\ Node[Link[j].node1].type # "STORAGE"
        /\ \A k \in DOMAIN layout.errors :
             layout.errors[k][1] \in {ERR_DIVIDER, ERR_OUTFALL, ERR_MULTI_OUTLET,
                                      ERR_SLOPE, ERR_REGULATOR}
        /\ layout.errors # <<>> => ErrorCode = layout.errors[Len(layout.errors)][1]
        /\ layout.errors = <<>> => ErrorCode = layout.entry

\* a divider with three outlet links, one of them an orifice
C14_Witness ==
    /\ Initialized({"KW"})
    /\ Node[1].type = "DIVIDER" /\ Outlets(1) = 3 /\ Link[1].type = "ORIFICE"
    /\ layout.errors = <<<<ERR_DIVIDER, "NODE", 1>>, <<ERR_REGULATOR, "LINK", 1>>>>
    /\ ErrorCode = ERR_REGULATOR

C16_NoOutfallIsError ==
    (Initialized({"SF", "KW", "DW"})
     /\ \A n \in DOMAIN Node : Node[n].type # "OUTFALL")
    => ErrorCode # 0

\* C16: under dynamic wave routing flowrout_init sets ERR_NO_OUTLETS whenever
\* the network has no outfall node; under steady flow and kinematic wave
\* routing it never reports ERR_NO_OUTLETS
C16_NoOutfallIsErrorDW ==
    /\ (Initialized({"DW"}) /\ \A n \in DOMAIN Node : Node[n].type # "OUTFALL")
       => (layoutReported(ERR_NO_OUTLETS) /\ ErrorCode = ERR_NO_OUTLETS)
    /\ Initialized({"SF", "KW"}) => ~layoutReported(ERR_NO_OUTLETS)

\* dynamic wave routing of a network without an outfall and with no other
\* fault
C16_Witness ==
    /\ Initialized({"DW"})
    /\ \A n \in DOMAIN Node : Node[n].type # "OUTFALL"
    /\ layout.errors = <<<<ERR_NO_OUTLETS, "", 0>>>>
    /\ ErrorCode = ERR_NO_OUTLETS

-----------------------------------------------------------------------------
(* Properties of the runoff time step.                                     *)

\* the last call of runoff_execute called runoff_getTimeStep
TimeStepTaken == tick.path \in {"tick", "timestep"}

\* the positive times from the current date to the next change of the
\* evaporation and to the next change of the rainfall of each gage
NextChanges ==
    {d \in {climate_getNextEvapDate(sp, tick.t) - tick.t}
           \cup {gage_getNextRainDate(Gage[j], tick.t) - tick.t : j \in DOMAIN Gage} :
       d > 0}

\* the smaller of the step a and the shortest of the times in S
Shortest(a, S) == IF \E d \in S : d < a THEN CHOOSE d \in S : \A e \in S : d <= e ELSE a

\* the wet step under a wet condition, the dry step otherwise
BaseStep == IF tick.wet THEN sp.WetStep ELSE sp.DryStep

\* C17 as stated: runoff_getTimeStep returns the smaller of the base step
\* (WetStep under a wet condition, DryStep otherwise) and the shortest
\* positive time to the next change of evaporation or rainfall, for every
\* pair of WetStep and DryStep
C17_MinOfBaseAndCandidate ==
    TimeStepTaken => tick.timeStep = Shortest(BaseStep, NextChanges)

\* C17: runoff_getTimeStep returns the smallest of the base step, DryStep
\* and the shortest positive time to the next change of evaporation or
\* rainfall; this is the smaller of the base step and that time whenever
\* WetStep <= DryStep
C17_MinOfBaseDryAndCandidate ==
    TimeStepTaken =>
        /\ tick.timeStep = Shortest(IF BaseStep < sp.DryStep THEN BaseStep
                                    ELSE sp.DryStep, NextChanges)
        /\ sp.WetStep <= sp.DryStep =>
             tick.timeStep = Shortest(BaseStep, NextChanges)

\* it rains, WetStep is 3 sec, DryStep 2 sec, the next change is 4 sec
\* away, and the step is 2 sec
C17_Witness ==
    /\ TimeStepTaken /\ tick.wet /\ RunoffShared.IsRaining
    /\ sp.WetStep = 3 /\ sp.DryStep = 2 /\ NextChanges = {4, 86400}
    /\ tick.timeStep = 2

\* the step is a call of runoff_execute that advances the clock: the normal
\* computation, the project without subcatchments, or a step read from the
\* runoff interface file
ClockAdvanced ==
    /\ rt' = rt
    /\ ErrorCode' = 0
    /\ tick'.path \in {"tick", "nosubcatch", "file"}

\* C18: after every call of runoff_execute, on each of its paths,
\* OldRunoffTime <= NewRunoffTime <= TotalDuration; a call either leaves
\* both clocks as they are or makes OldRunoffTime the value NewRunoffTime
\* had before the call, and it does the latter whenever it advances the
\* clock
C18_ClockOrdered ==
    [][/\ OldRunoffTime' <= NewRunoffTime'
       /\ NewRunoffTime' <= sp'.TotalDuration
       /\ \/ OldRunoffTime' = NewRunoffTime
          \/ OldRunoffTime' = OldRunoffTime /\ NewRunoffTime' = NewRunoffTime
       /\ ClockAdvanced => (OldRunoffTime' = NewRunoffTime
                            /\ NewRunoffTime' >= NewRunoffTime)]_vars

\* the step of the normal computation was cut to the end of the simulation
C18_Witness ==
    /\ tick.path = "tick" /\ ErrorCode = 0
    /\ tick.runoffStep < tick.timeStep
    /\ OldRunoffTime < NewRunoffTime /\ NewRunoffTime = sp.TotalDuration

\* the last call of runoff_execute called surfqual_sweepBuildup for
\* subcatchment j
Swept(j) ==
    /\ tick.path = "tick"
    /\ \E k \in DOMAIN tick.calls :
         /\ tick.calls[k][1] = j
         /\ \E m \in DOMAIN tick.calls[k][2] :
              tick.calls[k][2][m] = "surfqual_sweepBuildup"

\* C19: in a runoff tick surfqual_sweepBuildup is called for a subcatchment
\* only if the day of the year lies within the sweep season, SweepStart <=
\* day <= SweepEnd, and the rainfall of the subcatchment is at most
\* MIN_RUNOFF
C19_SweepOnlyInSeason ==
    \A j \in DOMAIN Subcatch :
        Swept(j) => /\ sp.SweepStart <= tick.day /\ tick.day <= sp.SweepEnd
                    /\ WithinMinRunoff(Subcatch[j].rainfall)

-----------------------------------------------------------------------------
(* Properties of the subcatchment of zero area.                            *)

\* a value that no division by zero has produced
Finite(x) == x \notin {NAN, INF, 0 - INF}

\* the weights of old and new runoff at which the outflow is taken
OutflowWeights == {0, UNIT \div 2, UNIT}

\* C20: for a subcatchment of zero area whose state is not read from the
\* runoff interface file, after any sequence of runoff ticks newRunoff and
\* oldRunoff are 0, subcatch_getWtdOutflow returns 0 for every weight, its
\* runon and the inflow of its sub-areas are 0 (it receives no runon from
\* an upstream subcatchment or from an outfall), and its losses are finite
\* values (nothing was divided by its area or its non-LID area)
C20_ZeroAreaInert ==
    \A j \in DOMAIN Subcatch :
        (Subcatch[j].area = 0 /\ Frunoff.mode # "USE_FILE") =>
            /\ Subcatch[j].newRunoff = 0 /\ Subcatch[j].oldRunoff = 0
            /\ \A f \in OutflowWeights : subcatch_getWtdOutflow(Subcatch[j], f) = 0
            /\ Subcatch[j].runon = 0
            /\ \A i \in 1..3 : Subcatch[j].subArea[i].inflow = 0
            /\ Finite(Subcatch[j].evapLoss) /\ Finite(Subcatch[j].infilLoss)
            /\ \A i \in 1..3 : Finite(Subcatch[j].subArea[i].runoff)

\* the second tick and later: subcatchment 1 had runoff in the step before
\* and drains to subcatchment 3 of zero area, and so does the outfall
C20_Witness ==
    /\ tick.path = "tick" /\ tick.oldRunoffStep > 0 /\ ErrorCode = 0
    /\ Subcatch[3].area = 0
    /\ Subcatch[1].outSubcatch = 3 /\ Subcatch[1].oldRunoff > 0
    /\ Finite(Subcatch[1].oldRunoff)
    /\ Outfall[1].routeTo = 3 /\ Outfall[1].vRouted > 0
    /\ Subcatch[3].runon = 0 /\ Subcatch[3].newRunoff = 0

-----------------------------------------------------------------------------
(* Properties of the routing of runoff between sub-areas, subcatchments    *)
(* and outfalls.  In a step of runoff_execute the unprimed variables hold  *)
(* what the tick before has left: newRunoff and the runoff of each         *)
(* sub-area are the runoff of tick k, and the step computes tick k + 1.    *)

\* the step is a call of runoff_execute that computes the runoff
RunoffTick == rt' = rt /\ tick'.path = "tick"

\* the runoff step of the tick before (sec)
LastRunoffStep == (NewRunoffTime - OldRunoffTime) \div 1000

\* the sum of the n first values of f
RECURSIVE XSum(_, _)
XSum(f, n) == IF n = 0 THEN 0 ELSE XAdd(XSum(f, n - 1), f[n])

\* the area over which the runon of subcatchment k is spread: the non-LID
\* area, or the whole area if there is none
SpreadArea(k) ==
    IF Subcatch[k].area - Subcatch[k].lidArea > 0
    THEN Subcatch[k].area - Subcatch[k].lidArea
    ELSE Subcatch[k].area

\* the rate at which the volume that the outfalls have routed onto
\* subcatchment k in the step before runs onto it
OutfallRunon(k) ==
    XSum([i \in 1..Len(Outfall) |->
            IF Outfall[i].routeTo = k /\ LastRunoffStep > 0
            THEN XDiv(XDiv(Outfall[i].vRouted, LastRunoffStep), SpreadArea(k))
            ELSE 0],
         Len(Outfall))

\* the rate at which the runoff of tick k of the subcatchments that drain
\* to subcatchment k runs onto it
UpstreamRunon(k) ==
    XSum([j \in 1..Len(Subcatch) |->
            IF j # k /\ Subcatch[j].outSubcatch = k /\ Subcatch[j].area # 0
            THEN XDiv(Subcatch[j].newRunoff, SpreadArea(k))
            ELSE 0],
         Len(Subcatch))

\* the runoff of tick k of the other sub-areas of subcatchment k that is
\* routed to its sub-area i
SubareaRunon(k, i) ==
    IF /\ i = PERV /\ Subcatch[k].fracImperv < UNIT
       /\ Subcatch[k].subArea[IMPERV0].routeTo = "TO_PERV"
    THEN XDiv(XMul(XAdd(Frac(Subcatch[k].subArea[IMPERV0].runoff,
                             Subcatch[k].subArea[IMPERV0].fArea),
                        Frac(Subcatch[k].subArea[IMPERV1].runoff,
                             Subcatch[k].subArea[IMPERV1].fArea)),
                   UNIT - Subcatch[k].subArea[IMPERV0].fOutlet),
              Subcatch[k].subArea[PERV].fArea)
    ELSE IF /\ i = IMPERV1 /\ Subcatch[k].fracImperv > 0
            /\ Subcatch[k].subArea[PERV].routeTo = "TO_IMPERV"
            /\ Subcatch[k].subArea[IMPERV1].fArea > 0
    THEN XDiv(XMul(Frac(Subcatch[k].subArea[PERV].runoff,
                        UNIT - Subcatch[k].subArea[PERV].fOutlet),
                   Subcatch[k].subArea[PERV].fArea),
              Subcatch[k].subArea[IMPERV1].fArea)
    ELSE 0

\* C21: when the runon of tick k + 1 has been routed, the inflow of each
\* sub-area is the runoff of tick k of the sub-areas, subcatchments and
\* outfalls that are routed to it and nothing else: not the inflow it had
\* in tick k (the inflow is reset at the start of the tick) and not a runoff
\* of tick k + 1, whatever the index order of source and receiver
C21_OneTickLag ==
    [][RunoffTick =>
         \A k \in DOMAIN Subcatch :
             IF Subcatch[k].area = 0
             THEN /\ tick'.routed[k].runon = 0
                  /\ \A i \in 1..3 : tick'.routed[k].inflow[i] = 0
             ELSE /\ tick'.routed[k].runon = XAdd(OutfallRunon(k), UpstreamRunon(k))
                  /\ \A i \in 1..3 :
                       tick'.routed[k].inflow[i] =
                           XAdd(XAdd(OutfallRunon(k), UpstreamRunon(k)),
                                SubareaRunon(k, i))]_vars

\* a tick after the first one: subcatchment 2 drains to subcatchment 1,
\* whose pervious sub-area is routed to the impervious one, and both flows
\* of the tick before have reached their receivers
C21_Witness ==
    /\ tick.path = "tick" /\ tick.oldRunoffStep > 0
    /\ Subcatch[2].outSubcatch = 1 /\ Subcatch[2].oldRunoff > 0
    /\ tick.routed[1].runon > 0
    /\ Subcatch[1].subArea[PERV].routeTo = "TO_IMPERV"
    /\ tick.routed[1].inflow[IMPERV1] > tick.routed[1].runon
    /\ tick.routed[1].inflow[IMPERV0] = tick.routed[1].runon

\* the calls of findSubareaRunoff of the last tick for a sub-area whose
\* updated depth D is above its depression storage
Spills ==
    {k \in DOMAIN tick.ponded :
       Finite(tick.ponded[k].D) /\ tick.ponded[k].D > tick.ponded[k].dStore}

\* C22 as stated: a sub-area with alpha = 0 whose updated depth D is above
\* dStore has the runoff (D - dStore) / dt with dt the whole runoff step, and
\* its depth is set back to dStore
C22_SpillOverFullStep ==
    tick.path = "tick" =>
        \A k \in Spills :
            tick.ponded[k].alpha = 0 =>
                /\ tick.ponded[k].runoff =
                       XDiv(tick.ponded[k].D - tick.ponded[k].dStore,
                            tick.ponded[k].tStep)
                /\ tick.ponded[k].depth = tick.ponded[k].dStore

\* the time over which the runoff occurs: the step less the time the inflow
\* has taken to fill the depression storage
RunoffTime(e) ==
    IF e.d0 < e.dStore THEN e.tStep - XDiv(e.dStore - e.d0, e.ix) ELSE e.tStep

\* C22 (amended): a sub-area with Manning N = 0 whose updated depth D is
\* above dStore has the runoff (D - dStore) / tRunoff, where tRunoff is the
\* part of the step left once the depression storage is full, and its depth
\* is set back to dStore; a sub-area with N > 0 and alpha = 0 has no runoff
\* and keeps its depth D
C22_SpillOverRunoffTime ==
    tick.path = "tick" =>
        \A k \in Spills :
            IF tick.ponded[k].N = 0
            THEN /\ tick.ponded[k].tRunoff = RunoffTime(tick.ponded[k])
                 /\ tick.ponded[k].tRunoff > 0
                 /\ tick.ponded[k].runoff =
                        XDiv(tick.ponded[k].D - tick.ponded[k].dStore,
                             tick.ponded[k].tRunoff)
                 /\ tick.ponded[k].depth = tick.ponded[k].dStore
            ELSE tick.ponded[k].alpha = 0 =>
                     /\ tick.ponded[k].runoff = 0
                     /\ tick.ponded[k].depth = tick.ponded[k].D

\* a sub-area with N = 0 that the inflow of the step has filled and made
\* spill: the runoff is taken over less than the step
C22_Witness ==
    /\ tick.path = "tick"
    /\ \E k \in Spills :
           /\ tick.ponded[k].N = 0 /\ tick.ponded[k].d0 < tick.ponded[k].dStore
           /\ tick.ponded[k].tRunoff < tick.ponded[k].tStep
           /\ tick.ponded[k].runoff * tick.ponded[k].tStep
                  > tick.ponded[k].D - tick.ponded[k].dStore

\* the step is a runoff tick that follows a positive runoff step
HandoverTick == RunoffTick /\ LastRunoffStep > 0

\* the outfalls whose flow is routed onto a subcatchment
RoutedOutfalls == {i \in DOMAIN Outfall : Outfall[i].routeTo > 0}

\* the volume that the outfalls hold for subcatchment k
RoutedVolume(k) ==
    XSum([i \in 1..Len(Outfall) |->
            IF Outfall[i].routeTo = k THEN Outfall[i].vRouted ELSE 0],
         Len(Outfall))

\* the volume that all the outfalls hold for the subcatchments in K
TotalRoutedVolume(K) ==
    XSum([i \in 1..Len(Outfall) |->
            IF Outfall[i].routeTo \in K THEN Outfall[i].vRouted ELSE 0],
         Len(Outfall))

\* the loads of the outfalls in I, in litres, in the order of the hand-over
RECURSIVE RoutedLoads(_, _)
RoutedLoads(I, i) ==
    IF i > Len(Outfall) THEN <<>>
    ELSE (IF i \in I
          THEN [p \in 1..Len(Outfall[i].wRouted) |->
                  <<p, LperFT3(Outfall[i].wRouted[p])>>]
          ELSE <<>>)
         \o RoutedLoads(I, i + 1)

\* subcatchment k has received the volume v as runon over the tick
ReceivedRunon(t, k, v) ==
    /\ \E n \in DOMAIN t.vRunon : t.vRunon[n][1] = k
    /\ \A n \in DOMAIN t.vRunon : t.vRunon[n][1] = k => t.vRunon[n][2] = v

\* C23 as stated: at the top of a tick that follows a positive step every
\* outfall routed onto a subcatchment is emptied of its routed volume and
\* loads; the runon of the receiver rises by the volume spread over its
\* non-LID area, the volume it receives as runon over the tick is the routed
\* volume, which is the volume credited to the runon mass balance by the
\* tick, and the loads are counted as wet deposition
C23_OutfallHandover ==
    [][HandoverTick =>
         /\ \A i \in RoutedOutfalls :
                /\ Outfall'[i].vRouted = 0
                /\ Outfall'[i].wRouted = Zeros(Len(Outfall[i].wRouted))
                /\ tick'.routed[Outfall[i].routeTo].runon >=
                       XDiv(XDiv(Outfall[i].vRouted, LastRunoffStep),
                            SpreadArea(Outfall[i].routeTo))
                /\ UpstreamRunon(Outfall[i].routeTo) = 0 =>
                       ReceivedRunon(tick', Outfall[i].routeTo,
                                     RoutedVolume(Outfall[i].routeTo))
         /\ tick'.totals.RUNON = TotalRoutedVolume(DOMAIN Subcatch)
         /\ tick'.deposition = RoutedLoads(RoutedOutfalls, 1)]_vars

\* the outfalls routed onto a subcatchment that has an area
ServedOutfalls == {i \in RoutedOutfalls : Subcatch[Outfall[i].routeTo].area # 0}

\* the subcatchments that have an area
WithArea == {k \in DOMAIN Subcatch : Subcatch[k].area # 0}

\* C23 (amended): only the outfalls whose receiver has an area are emptied,
\* the others keep their volume and loads; the runon of the receiver is the
\* routed volume over the step before and over the non-LID area, so that the
\* volume it receives over the tick is that rate times the step of the tick,
\* while the mass balance is credited with the routed volume itself
C23_OutfallHandoverRate ==
    [][HandoverTick =>
         /\ \A i \in ServedOutfalls :
                /\ Outfall'[i].vRouted = 0
                /\ Outfall'[i].wRouted = Zeros(Len(Outfall[i].wRouted))
                /\ UpstreamRunon(Outfall[i].routeTo) = 0 =>
                     /\ tick'.routed[Outfall[i].routeTo].runon =
                            OutfallRunon(Outfall[i].routeTo)
                     /\ ReceivedRunon(tick', Outfall[i].routeTo,
                                      Vol(OutfallRunon(Outfall[i].routeTo),
                                          tick'.runoffStep,
                                          SpreadArea(Outfall[i].routeTo)))
         /\ \A i \in RoutedOutfalls \ ServedOutfalls : Outfall'[i] = Outfall[i]
         /\ tick'.totals.RUNON = TotalRoutedVolume(WithArea)
         /\ tick'.deposition = RoutedLoads(ServedOutfalls, 1)]_vars

\* a tick whose step differs from the step before has handed the volume and
\* the load of the outfall to its receiver, which has received a volume
\* other than the volume credited to the mass balance
C23_Witness ==
    /\ tick.path = "tick" /\ tick.oldRunoffStep > 0
    /\ tick.runoffStep # tick.oldRunoffStep
    /\ Outfall[1].routeTo > 0 /\ Outfall[1].vRouted = 0
    /\ tick.deposition # <<>>
    /\ tick.totals.RUNON > 0
    /\ \E n \in DOMAIN tick.vRunon :
           /\ tick.vRunon[n][1] = Outfall[1].routeTo
           /\ tick.vRunon[n][2] > 0
           /\ tick.vRunon[n][2] # tick.totals.RUNON

-----------------------------------------------------------------------------
(* Properties of the node and link states of a routing step.               *)

\* a steady or kinematic wave step is under way or has returned
NonDynamicStep ==
    rt.pc \in {"links", "done"} /\ ErrorCode = 0 /\ rt.model \in {"SF", "KW"}

\* the positions in the link array of the links that leave node n
OutPositions(n) == {k \in 1..Len(sortedLinks) : Link[sortedLinks[k]].node1 = n}

\* the position of the first of them
FirstOut(n) == CHOOSE k \in OutPositions(n) : \A m \in OutPositions(n) : k <= m

\* C24: in a steady or kinematic wave step every storage node is updated
\* exactly once: a storage node with outgoing links when the first of them
\* is reached in the link array, before the inflow of that link and of any
\* later one is retrieved; a terminal storage node in the final loop over
\* the nodes, with the position past the end of the link array and no link
\* array; the updated flag is set by that update and no other follows
C24_StorageUpdatedOnce ==
    NonDynamicStep =>
        \A n \in DOMAIN Node :
            Node[n].type = "STORAGE" =>
                /\ Node[n].updated = (Node[n].at # <<>>)
                /\ IF rt.pc = "done"
                   THEN Node[n].at = IF OutPositions(n) = {}
                                     THEN <<Len(sortedLinks) + 1>>
                                     ELSE <<FirstOut(n)>>
                   ELSE IF OutPositions(n) # {} /\ FirstOut(n) < rt.i
                   THEN Node[n].at = <<FirstOut(n)>>
                   ELSE Node[n].at = <<>>
                /\ (rt.pc = "links" /\ rt.j # 0 /\ Link[rt.j].node1 = n) =>
                       rt.qin0 = getLinkInflow(Node, Link, rt.j, rt.tStep)

\* the step has returned: storage node 1 has two outgoing links that are
\* not neighbours in the link array, the first of them a regulator whose
\* inflow follows the updated depth, and node 3 is a terminal storage node
C24_Witness ==
    /\ RoutingDone
    /\ Node[1].type = "STORAGE" /\ OutPositions(1) = {1, 3}
    /\ Node[1].at = <<1>> /\ Node[1].updated
    /\ Link[sortedLinks[1]].type = "ORIFICE" /\ Link[sortedLinks[1]].newFlow > 0
    /\ Node[3].type = "STORAGE" /\ OutPositions(3) = {}
    /\ Node[3].at = <<Len(sortedLinks) + 1>> /\ Node[3].updated

\* the node cannot pond
CannotPond(n) == ~AllowPonding \/ Node[n].pondedArea = 0

\* C25: after a steady or kinematic wave step a node that cannot pond holds
\* no more than its full volume, and a node that overflows holds no less,
\* be it a storage node, with the last iterate of its update, or not
C25_VolumeWithinFull ==
    RoutingDone =>
        \A n \in DOMAIN Node :
            /\ CannotPond(n) => Node[n].newVolume <= Node[n].fullVolume
            /\ Node[n].overflow > 0 => Node[n].newVolume >= Node[n].fullVolume

\* a storage node that cannot pond overflows at its full volume after more
\* than one pass of its update, and a node that is no storage node overflows
C25_Witness ==
    /\ RoutingDone
    /\ \E n \in DOMAIN Node :
           /\ Node[n].type = "STORAGE" /\ CannotPond(n) /\ Node[n].iter > 2
           /\ Node[n].overflow > 0 /\ Node[n].newVolume = Node[n].fullVolume
    /\ \E n \in DOMAIN Node :
           /\ Node[n].type # "STORAGE" /\ CannotPond(n)
           /\ Node[n].overflow > 0 /\ Node[n].newVolume = Node[n].fullVolume

\* the calls of setNewLinkState of the step: call k takes the depths
\* rt.depths[k] of the nodes to rt.depths[k + 1]
LinkStateCalls == 1..(Len(rt.depths) - 1)

-----------------------------------------------------------------------------
(* Properties of the time step, the interface file and the ponded depth of *)
(* a runoff tick.                                                          *)

\* C27: runoff_execute rejects a time step that is not positive with
\* ERR_TIMESTEP, and the step it hands to subcatch_getRunoff, which divides
\* by it, is positive in every tick, also in a tick that starts when
\* NewRunoffTime has reached TotalDuration
C27_StepPositive ==
    /\ tick.path = "timestep" => ErrorCode = ERR_TIMESTEP /\ tick.steps = <<>>
    /\ tick.path = "tick" =>
           \A n \in DOMAIN tick.steps : tick.steps[n][2] > 0

\* the bytes of one record of the runoff interface file
RecordBytes == 4 + Nobjects.SUBCATCH * (8 + Nobjects.POLLUT) * 4

\* the runoff is taken from an interface file that holds the MaxSteps records
\* its header declares
CompleteFile ==
    /\ Frunoff.mode = "USE_FILE" /\ Nobjects.SUBCATCH > 0
    /\ Len(Frunoff.data) =
           Len(RunoffFile(Nobjects, FlowUnits, RunoffShared.MaxSteps))
           + RunoffShared.MaxSteps * RecordBytes

\* the step is a call of runoff_execute that reaches runoff_readFromFile
FileCall == rt' = rt /\ ErrorCode = 0 /\ tick'.path = "file"

\* C28: with such a file each of the first MaxSteps calls of runoff_execute
\* consumes one record, and every further call reports ERR_RUNOFF_FILE_END
\* and leaves the file, the subcatchments and the runoff clock as they are
C28_AtMostMaxSteps ==
    [][(CompleteFile /\ FileCall) =>
         IF RunoffShared.Nsteps < RunoffShared.MaxSteps
         THEN /\ ErrorCode' = 0
              /\ Frunoff'.pos = Frunoff.pos + RecordBytes
              /\ RunoffShared'.Nsteps = RunoffShared.Nsteps + 1
         ELSE /\ ErrorCode' = ERR_RUNOFF_FILE_END
              /\ Frunoff' = Frunoff
              /\ Subcatch' = Subcatch
              /\ OldRunoffTime' = OldRunoffTime
              /\ NewRunoffTime' = NewRunoffTime]_vars

\* C29: runoff_saveToFile and runoff_readFromFile take no more floats per
\* subcatchment from or into the buffer SubcatchResults than output_open
\* has allocated, for every pollutant count and setting of IgnoreQuality
C29_WithinBuffer ==
    tick.path \in {"tick", "file"} =>
        /\ ~tick.overrun
        /\ Frunoff.mode \in {"SAVE_FILE", "USE_FILE"} =>
               8 + Nobjects.POLLUT <= Len(sp.SubcatchResults)

\* the sub-area depth d is a number that is not negative
DepthNotNegative(d) == Finite(d) /\ d >= 0

\* the depths that the last tick has left and those that updatePondedDepth
\* and findSubareaRunoff have left in it are not negative
DepthsNotNegative ==
    /\ \A j \in DOMAIN Subcatch : \A i \in 1..3 :
           DepthNotNegative(Subcatch[j].subArea[i].depth)
    /\ \A k \in DOMAIN tick.ponded :
           /\ DepthNotNegative(tick.ponded[k].D)
           /\ DepthNotNegative(tick.ponded[k].depth)

PositiveStep ==
    /\ tick.path = "tick"
    /\ \A k \in DOMAIN tick.steps : tick.steps[k][2] > 0

====
